---------------------------- MODULE Spec2Model ----------------------------
(***************************************************************************)
(* A model of fast-serializer: the validator subsystem (validator.py), the *)
(* record deserialization / serialization pipeline (serializer.py), the    *)
(* record compilation engine (fast_dataclass.py) and the field model       *)
(* (field.py).                                                             *)
(*                                                                         *)
(* Python values are modelled as records of one uniform shape              *)
(*   [t : type tag, n : integer payload, s : text payload, l : items]      *)
(* Text is a sequence of one-character strings, so that len(), slicing and *)
(* int()/float() parsing are computed and not assumed.                     *)
(***************************************************************************)
EXTENDS Integers, Sequences, FiniteSets, TLC

-----------------------------------------------------------------------------
(* Generic helpers                                                         *)

Abs(x) == IF x < 0 THEN -x ELSE x

\* C-style truncating division, as Python's int() applies to a quotient
TruncDiv(a, b) == IF a >= 0 THEN a \div b ELSE -((-a) \div b)

Range(q) == {q[i] : i \in 1..Len(q)}

-----------------------------------------------------------------------------
(* Python values                                                           *)

NoneV == [t |-> "none", n |-> 0, s |-> <<>>, l |-> <<>>]
IntV(i) == [t |-> "int", n |-> i, s |-> <<>>, l |-> <<>>]
\* a float, held in hundredths: FloatV(250) is 2.5
FloatV(c) == [t |-> "float", n |-> c, s |-> <<>>, l |-> <<>>]
\* a decimal.Decimal, held in hundredths
DecimalV(c) == [t |-> "decimal", n |-> c, s |-> <<>>, l |-> <<>>]
\* a datetime.time of whole seconds
TimeV(hour, minute, second) ==
    [t |-> "time", n |-> 0, s |-> <<>>, l |-> <<IntV(hour), IntV(minute), IntV(second)>>]
\* a boolean; bool is a subclass of int, n is 0 or 1
BoolV(b) == [t |-> "bool", n |-> IF b THEN 1 ELSE 0, s |-> <<>>, l |-> <<>>]
StrV(cs) == [t |-> "str", n |-> 0, s |-> cs, l |-> <<>>]
ListV(items) == [t |-> "list", n |-> 0, s |-> <<>>, l |-> items]
TupleV(items) == [t |-> "tuple", n |-> 0, s |-> <<>>, l |-> items]
\* the key/value map handed to the deserializer, as it appears in input_value
DictV == [t |-> "dict", n |-> 0, s |-> <<>>, l |-> <<>>]
\* marker for "this key is not in the map" (not a Python value)
AbsentV == [t |-> "absent", n |-> 0, s |-> <<>>, l |-> <<>>]

-----------------------------------------------------------------------------
(* Text: str(int), int(str), float(str)                                    *)

DigitChars == <<"0", "1", "2", "3", "4", "5", "6", "7", "8", "9">>

IsDigit(c) == c \in Range(DigitChars)

DigitVal(c) == (CHOOSE i \in 1..10 : DigitChars[i] = c) - 1

RECURSIVE NatToStr(_)
NatToStr(i) == IF i < 10 THEN <<DigitChars[i + 1]>>
               ELSE NatToStr(i \div 10) \o <<DigitChars[(i % 10) + 1]>>

\* str(i) for an int
IntToStr(i) == IF i < 0 THEN <<"-">> \o NatToStr(-i) ELSE NatToStr(i)

\* "%02d" % i for 0 <= i
Pad2(i) == IF i < 10 THEN <<"0">> \o NatToStr(i) ELSE NatToStr(i)

AllDigits(cs) == cs # <<>> /\ \A i \in 1..Len(cs) : IsDigit(cs[i])

RECURSIVE DigitsVal(_)
DigitsVal(cs) == IF cs = <<>> THEN 0
                 ELSE DigitsVal(SubSeq(cs, 1, Len(cs) - 1)) * 10 + DigitVal(cs[Len(cs)])

RECURSIVE Strip(_)
Strip(cs) == IF cs = <<>> THEN cs
             ELSE IF Head(cs) = " " THEN Strip(Tail(cs))
             ELSE IF cs[Len(cs)] = " " THEN Strip(SubSeq(cs, 1, Len(cs) - 1))
             ELSE cs

HasSign(cs) == cs # <<>> /\ Head(cs) \in {"-", "+"}
Unsigned(cs) == IF HasSign(cs) THEN Tail(cs) ELSE cs
SignOf(cs) == IF cs # <<>> /\ Head(cs) = "-" THEN -1 ELSE 1

\* int(text) succeeds: optional blanks, optional sign, one or more digits
IntParses(cs) == AllDigits(Unsigned(Strip(cs)))
IntParse(cs) == SignOf(Strip(cs)) * DigitsVal(Unsigned(Strip(cs)))

DotCount(cs) == Cardinality({i \in 1..Len(cs) : cs[i] = "."})
DotPos(cs) == CHOOSE i \in 1..Len(cs) : cs[i] = "."
IntPartOf(cs) == IF DotCount(cs) = 0 THEN cs ELSE SubSeq(cs, 1, DotPos(cs) - 1)
FracPartOf(cs) == IF DotCount(cs) = 0 THEN <<>> ELSE SubSeq(cs, DotPos(cs) + 1, Len(cs))

\* float(text) succeeds: optional blanks, optional sign, digits with at most
\* one decimal point and at least one digit
FloatParses(cs) ==
    LET u == Unsigned(Strip(cs)) IN
    /\ DotCount(u) <= 1
    /\ IntPartOf(u) \o FracPartOf(u) # <<>>
    /\ \A i \in 1..Len(u) : IsDigit(u[i]) \/ u[i] = "."

-----------------------------------------------------------------------------
(* Error model (exceptions.py)                                             *)

\* one element of a location path: a field name or key, or an item index
LocName(nm) == [name |-> nm, idx |-> -1]
LocIdx(i) == [name |-> "", idx |-> i]

ErrorDetail(loc, input_value, exception_type, msg) ==
    [loc |-> loc, input_value |-> input_value, exception_type |-> exception_type, msg |-> msg]

\* _format_exception_type(type(e)): the class of an exception class is `type`
FormatExceptionClass == "type"

\* The outcome of a call: a returned value or a raised exception
Returned(v) ==
    [ok |-> TRUE, v |-> v, exc |-> "", exception_type |-> "", msg |-> "", title |-> <<>>,
     line_errors |-> <<>>]
RaisedValidationError(title, line_errors) ==
    [ok |-> FALSE, v |-> NoneV, exc |-> "ValidationError", exception_type |-> "", msg |-> "",
     title |-> title, line_errors |-> line_errors]
RaisedCustom(exception_type, msg) ==
    [ok |-> FALSE, v |-> NoneV, exc |-> "DataclassCustomError",
     exception_type |-> exception_type, msg |-> msg, title |-> <<>>, line_errors |-> <<>>]
RaisedPlain(exc, msg) ==
    [ok |-> FALSE, v |-> NoneV, exc |-> exc, exception_type |-> "", msg |-> msg, title |-> <<>>,
     line_errors |-> <<>>]

-----------------------------------------------------------------------------
(* Validators (validator.py).  A validator object is a record              *)
(*   [k : validator_name, subs : nested validators, variadic,              *)
(*    allow_number, min_length, max_length]   with -1 standing for None    *)

NoLen == -1

AnyVal == [k |-> "any", subs |-> <<>>, variadic |-> FALSE, allow_number |-> TRUE,
           min_length |-> NoLen, max_length |-> NoLen]
StrVal == [AnyVal EXCEPT !.k = "str"]
IntVal == [AnyVal EXCEPT !.k = "int"]
ListVal(item) == [AnyVal EXCEPT !.k = "list", !.subs = <<item>>]
FixedTupleVal(vals) == [AnyVal EXCEPT !.k = "tuple", !.subs = vals]
VariadicTupleVal(item) == [AnyVal EXCEPT !.k = "tuple", !.subs = <<item>>, !.variadic = TRUE]
UnionVal(vals) == [AnyVal EXCEPT !.k = "union", !.subs = vals]

\* list.insert(0, *loc) on an ErrorDetail's location takes exactly one element
InsertArityOk(loc) == Len(loc) = 1

PrefixLoc(loc, errs) == [i \in 1..Len(errs) |-> [errs[i] EXCEPT !.loc = loc \o @]]

\* check_collection_length: the exception raised, or "" for none
check_collection_length(length, min_length, max_length) ==
    IF min_length # NoLen /\ length < min_length THEN "iter_too_short"
    ELSE IF max_length # NoLen /\ length > max_length THEN "iter_too_long"
    ELSE ""

\* extract_collection accepts list, tuple, set, frozenset and other non-text,
\* non-mapping collections
IsCollection(v) == v.t \in {"list", "tuple"}

\* StringValidator.maybe_str yields the text for a str value and None otherwise;
\* its callers test the result for truth, so the empty text counts as None
IsStr(v) == v.t = "str"

\* IntegerValidator.float_or_decimal_to_int on a float held in hundredths
\* (validate never passes is_decimal, so the sum value + half_adjust_value is
\* always the one computed)
HalfAdjustHundredths == 11
float_or_decimal_to_int(c) ==
    LET integer_part == TruncDiv(c, 100)
        maybe_int == TruncDiv(c + HalfAdjustHundredths, 100)
    IN IF maybe_int > integer_part THEN maybe_int ELSE integer_part

IntegerValidator_validate(v) ==
    IF v.t = "int" THEN Returned(v)
    ELSE IF IsStr(v) /\ v.s # <<>>
         THEN IF IntParses(v.s) THEN Returned(IntV(IntParse(v.s)))
              ELSE RaisedCustom("int_parsing", "cannot parse text as integer")
    ELSE IF v.t = "float" THEN Returned(IntV(float_or_decimal_to_int(v.n)))
    \* Decimal + float: the sum in float_or_decimal_to_int raises, uncaught
    ELSE IF v.t = "decimal"
         THEN RaisedPlain("TypeError", "unsupported operand type(s) for +")
    ELSE RaisedPlain("ValueError", "input should be a valid integer")

\* str(float) for a float held in hundredths with a whole value is "<int>.0"
FloatToStr(c) == IntToStr(TruncDiv(c, 100)) \o <<".">> \o
                 (IF Abs(c) % 100 = 0 THEN <<"0">>
                  ELSE IF Abs(c) % 10 = 0 THEN NatToStr((Abs(c) % 100) \div 10)
                  ELSE Pad2(Abs(c) % 100))

StringValidator_validate(val, v) ==
    IF IsStr(v) /\ v.s # <<>> THEN Returned(v)
    ELSE IF val.allow_number /\ v.t = "int" THEN Returned(StrV(IntToStr(v.n)))
    ELSE IF val.allow_number /\ v.t = "float" THEN Returned(StrV(FloatToStr(v.n)))
    ELSE IF val.allow_number /\ v.t = "bool"
         THEN Returned(StrV(IF v.n = 1 THEN <<"T", "r", "u", "e">>
                            ELSE <<"F", "a", "l", "s", "e">>))
    ELSE RaisedPlain("ValueError", "input should be a valid string")

\* The result of catch_validate_error given the outcome `out` of val.validate(v):
\*   raised: an exception escaped the handler itself (TypeError of list.insert)
\*   ret   : the value handed back (the input itself when validation failed)
\*   errs  : the caller's error list afterwards
CatchOutcome(out, v, loc, errs) ==
    IF out.ok THEN [raised |-> FALSE, ret |-> out.v, errs |-> errs]
    ELSE IF out.exc = "ValidationError"
         THEN IF out.line_errors # <<>> /\ ~InsertArityOk(loc)
              THEN [raised |-> TRUE, ret |-> v, errs |-> errs]
              ELSE [raised |-> FALSE, ret |-> v, errs |-> errs \o PrefixLoc(loc, out.line_errors)]
    ELSE IF out.exc = "DataclassCustomError"
         THEN [raised |-> FALSE, ret |-> v,
               errs |-> Append(errs, ErrorDetail(loc, v, out.exception_type, out.msg))]
    ELSE IF out.exc \in {"ValueError", "TypeError"}
         THEN [raised |-> FALSE, ret |-> v,
               errs |-> Append(errs, ErrorDetail(loc, v, FormatExceptionClass, out.msg))]
    ELSE [raised |-> FALSE, ret |-> v,
          errs |-> Append(errs, ErrorDetail(loc, v, "exception_error", out.msg))]

InsertTypeError == RaisedPlain("TypeError", "insert expected 2 arguments, got 1")

RECURSIVE ValidatorName(_)
RECURSIVE JoinNames(_)
JoinNames(vals) == IF vals = <<>> THEN <<>>
                   ELSE IF Len(vals) = 1 THEN ValidatorName(vals[1])
                   ELSE ValidatorName(vals[1]) \o <<",", " ">> \o JoinNames(Tail(vals))
\* the display name used as the title of a ValidationError, as text
ValidatorName(val) ==
    IF val.subs = <<>> THEN <<val.k>>
    ELSE <<val.k, "[">> \o JoinNames(val.subs) \o <<"]">>

RECURSIVE Validate(_, _)
RECURSIVE IterItems(_, _, _, _, _)
RECURSIVE FixedItems(_, _, _, _, _)
RECURSIVE UnionTry(_, _, _, _)

\* catch_validate_error(v, val, loc, errs)
catch_validate_error(v, val, loc, errs) == CatchOutcome(Validate(val, v), v, loc, errs)

\* [catch_validate_error(item, val, [i], errs) for i, item in enumerate(items)]
\* from position i (1-based here, 0-based in locations); acc = [res, errs]
IterItems(val, items, i, res, errs) ==
    IF i > Len(items) THEN [res |-> res, errs |-> errs]
    ELSE LET c == catch_validate_error(items[i], val, <<LocIdx(i - 1)>>, errs)
         IN IterItems(val, items, i + 1, Append(res, c.ret), c.errs)

\* the fixed-arity loop of TupleValidator.validate
FixedItems(vals, collection, i, res, errs) ==
    IF i > Len(vals) THEN [res |-> res, errs |-> errs]
    ELSE IF i > Len(collection.l)
         THEN FixedItems(vals, collection, i + 1, res,
                         Append(errs, ErrorDetail(<<LocIdx(i - 1)>>, collection, "missing",
                                                  "field required")))
    ELSE LET c == catch_validate_error(collection.l[i], vals[i], <<LocIdx(i - 1)>>, errs)
         IN FixedItems(vals, collection, i + 1, Append(res, c.ret), c.errs)

\* the member loop of UnionValidator.validate from member i; err is the last
\* captured ErrorDetail
UnionTry(vals, value, i, err) ==
    IF i > Len(vals) THEN RaisedCustom(err.exception_type, err.msg)
    ELSE LET c == catch_validate_error(value, vals[i], <<>>, <<>>)
         IN IF c.raised THEN InsertTypeError
            ELSE IF c.errs = <<>> THEN Returned(c.ret)
            ELSE UnionTry(vals, value, i + 1, c.errs[Len(c.errs)])

\* a list validator that reports the first failing item only
ListValidator_validate_FirstErrorOnly(val, value) ==
    IF ~IsCollection(value) THEN RaisedCustom("list_type", "input should be a list")
    ELSE LET lenErr == check_collection_length(Len(value.l), val.min_length, val.max_length)
             r == IterItems(val.subs[1], value.l, 1, <<>>, <<>>)
         IN IF lenErr # "" THEN RaisedCustom(lenErr, "length out of bounds")
            ELSE IF val.subs[1].k = "any" THEN Returned(ListV(value.l))
            ELSE IF r.errs # <<>> THEN RaisedValidationError(ValidatorName(val), <<r.errs[1]>>)
            ELSE Returned(ListV(r.res))

ListValidator_validate(val, value) ==
    IF ~IsCollection(value) THEN RaisedCustom("list_type", "input should be a list")
    ELSE LET lenErr == check_collection_length(Len(value.l), val.min_length, val.max_length)
             r == IterItems(val.subs[1], value.l, 1, <<>>, <<>>)
         IN IF lenErr # "" THEN RaisedCustom(lenErr, "length out of bounds")
            ELSE IF val.subs[1].k = "any" THEN Returned(ListV(value.l))
            ELSE IF r.errs # <<>> THEN RaisedValidationError(ValidatorName(val), r.errs)
            ELSE Returned(ListV(r.res))

\* a tuple validator without the arity check of the fixed mode
TupleValidator_validate_NoArityCheck(val, value) ==
    IF ~IsCollection(value) THEN RaisedCustom("tuple_type", "input should be a tuple")
    ELSE LET length == Len(value.l)
             lenErr == check_collection_length(length, val.min_length, val.max_length)
             fixed == FixedItems(val.subs, value, 1, <<>>, <<>>)
             var == IterItems(val.subs[1], value.l, 1, <<>>, <<>>)
         IN IF lenErr # "" THEN RaisedCustom(lenErr, "length out of bounds")
            ELSE IF ~val.variadic
                 THEN IF fixed.errs # <<>>
                      THEN RaisedValidationError(ValidatorName(val), fixed.errs)
                      ELSE Returned(TupleV(fixed.res))
            ELSE IF var.errs # <<>> THEN RaisedValidationError(ValidatorName(val), var.errs)
            ELSE Returned(TupleV(var.res))

TupleValidator_validate(val, value) ==
    IF ~IsCollection(value) THEN RaisedCustom("tuple_type", "input should be a tuple")
    ELSE LET length == Len(value.l)
             lenErr == check_collection_length(length, val.min_length, val.max_length)
             fixed == FixedItems(val.subs, value, 1, <<>>, <<>>)
             var == IterItems(val.subs[1], value.l, 1, <<>>, <<>>)
         IN IF lenErr # "" THEN RaisedCustom(lenErr, "length out of bounds")
            ELSE IF ~val.variadic
                 THEN IF length > Len(val.subs) THEN RaisedCustom("too_long", "tuple too long")
                      ELSE IF fixed.errs # <<>>
                           THEN RaisedValidationError(ValidatorName(val), fixed.errs)
                      ELSE Returned(TupleV(fixed.res))
            ELSE IF var.errs # <<>> THEN RaisedValidationError(ValidatorName(val), var.errs)
            ELSE Returned(TupleV(var.res))

UnionValidator_validate(val, value) ==
    UnionTry(val.subs, value, 1, ErrorDetail(<<>>, value, "", ""))

\* val.validate(value), dispatched on the validator's class
Validate(val, value) ==
    CASE val.k = "any" -> Returned(value)
      [] val.k = "str" -> StringValidator_validate(val, value)
      [] val.k = "int" -> IntegerValidator_validate(value)
      [] val.k = "list" -> ListValidator_validate(val, value)
      [] val.k = "tuple" -> TupleValidator_validate(val, value)
      [] val.k = "union" -> UnionValidator_validate(val, value)

-----------------------------------------------------------------------------
(* Date-time validator (validator.py, DatetimeValidator).  Integers that   *)
(* exceed the model checker's integers (timestamps) are kept as decimal   *)
(* digit sequences.                                                        *)

\* datetime.MAXYEAR
MAXYEAR == 9999
\* len(str(datetime.MAXYEAR))
year_length == 4
month_length == 2
day_length == 2
date_length == year_length + month_length + day_length
\* len(str(int(time.time()))), 10 for every clock between 2001 and 2286
timestamp_length == 10

\* an int without leading zeros
RECURSIVE Canon(_)
Canon(ds) == IF ds = <<>> THEN <<"0">>
             ELSE IF Head(ds) = "0" /\ Len(ds) > 1 THEN Canon(Tail(ds))
             ELSE ds

\* int(float(text)) for a text float() accepts: sign and digits of the
\* integral part; zero carries no sign
IntOfFloat(cs) ==
    LET digits == Canon(IntPartOf(Unsigned(Strip(cs))))
    IN [neg |-> SignOf(Strip(cs)) = -1 /\ digits # <<"0">>, digits |-> digits]

IsZero(iv) == iv.digits = <<"0">>

\* len(str(i))
StrLen(iv) == Len(iv.digits) + (IF iv.neg THEN 1 ELSE 0)

\* i < k for a small positive k
LessThan(iv, k) ==
    \/ iv.neg
    \/ Len(iv.digits) < Len(NatToStr(k))
    \/ Len(iv.digits) = Len(NatToStr(k)) /\ DigitsVal(iv.digits) < k

\* a <= b for digit sequences without leading zeros
RECURSIVE DigitsLeq(_, _)
DigitsLeq(a, b) ==
    IF Len(a) # Len(b) THEN Len(a) < Len(b)
    ELSE IF a = <<>> THEN TRUE
    ELSE IF Head(a) # Head(b) THEN DigitVal(Head(a)) < DigitVal(Head(b))
    ELSE DigitsLeq(Tail(a), Tail(b))

\* a datetime: a civil date and time, or the local time of an instant given
\* in milliseconds since the epoch
Civil(y, mo, d, h, mi, sec, us) ==
    [kind |-> "civil", y |-> y, mo |-> mo, d |-> d, h |-> h, mi |-> mi, sec |-> sec,
     us |-> us, ms |-> <<>>]
Instant(ms) ==
    [kind |-> "instant", y |-> 0, mo |-> 0, d |-> 0, h |-> 0, mi |-> 0, sec |-> 0, us |-> 0,
     ms |-> ms]

DtOk(dt) == [ok |-> TRUE, dt |-> dt, exc |-> "", exception_type |-> ""]
DtErr(exc, exception_type) ==
    [ok |-> FALSE, dt |-> Instant(<<>>), exc |-> exc, exception_type |-> exception_type]

IsLeap(y) == (y % 4 = 0 /\ y % 100 # 0) \/ y % 400 = 0
DaysInMonth(y, mo) ==
    IF mo = 2 THEN (IF IsLeap(y) THEN 29 ELSE 28)
    ELSE IF mo \in {4, 6, 9, 11} THEN 30 ELSE 31

\* datetime.datetime(y, mo, d, h, mi, sec, us)
datetime(y, mo, d, h, mi, sec, us) ==
    IF /\ y \in 1..MAXYEAR /\ mo \in 1..12 /\ d \in 1..DaysInMonth(y, mo)
       /\ h \in 0..23 /\ mi \in 0..59 /\ sec \in 0..59
    THEN DtOk(Civil(y, mo, d, h, mi, sec, us))
    ELSE DtErr("ValueError", "")

\* the last millisecond of year 9999
MaxTimestampMs == <<"2","5","3","4","0","2","3","0","0","7","9","9","9","9","9">>

\* datetime.datetime.fromtimestamp of a non-negative number of milliseconds
fromtimestamp(ms) ==
    IF DigitsLeq(Canon(ms), MaxTimestampMs) THEN DtOk(Instant(Canon(ms)))
    ELSE DtErr("ValueError", "")

Thousand == <<"0", "0", "0">>

\* a helper that takes every value for seconds
timestamp_to_datetime_NeverDivides(iv) == fromtimestamp(iv.digits \o Thousand)

\* DatetimeValidator.timestamp_to_datetime, of a positive int
timestamp_to_datetime(iv) ==
    IF StrLen(iv) > timestamp_length THEN fromtimestamp(iv.digits)
    ELSE fromtimestamp(iv.digits \o Thousand)

\* DatetimeValidator.get_delimiter
get_delimiter(value) ==
    IF "/" \in Range(value) THEN "/" ELSE IF "." \in Range(value) THEN "." ELSE "-"

TwoDigits(cs) == Len(cs) = 2 /\ AllDigits(cs)

\* the fields of a text laid out as YYYY?MM?DD[?HH:MM[:SS]]
YearOf(value) == SubSeq(value, 1, 4)
MonthOf(value) == SubSeq(value, 6, 7)
DayOf(value) == SubSeq(value, 9, 10)
HourOf(value) == SubSeq(value, 12, 13)
MinuteOf(value) == SubSeq(value, 15, 16)
SecondOf(value) == SubSeq(value, 18, 19)

DateLaidOut(value, delimiter) ==
    /\ AllDigits(YearOf(value)) /\ value[5] = delimiter
    /\ TwoDigits(MonthOf(value)) /\ value[8] = delimiter
    /\ TwoDigits(DayOf(value))

\* datetime.datetime.strptime(value, fmt) for the three formats the validator
\* builds, on texts whose fields have the widths the format prints
strptime(value, delimiter, with_minutes, with_seconds) ==
    IF /\ DateLaidOut(value, delimiter)
       /\ with_minutes => (value[11] = " " /\ TwoDigits(HourOf(value))
                            /\ value[14] = ":" /\ TwoDigits(MinuteOf(value)))
       /\ with_seconds => (value[17] = ":" /\ TwoDigits(SecondOf(value)))
    THEN datetime(DigitsVal(YearOf(value)), DigitsVal(MonthOf(value)), DigitsVal(DayOf(value)),
                  IF with_minutes THEN DigitsVal(HourOf(value)) ELSE 0,
                  IF with_minutes THEN DigitsVal(MinuteOf(value)) ELSE 0,
                  IF with_seconds THEN DigitsVal(SecondOf(value)) ELSE 0, 0)
    ELSE DtErr("ValueError", "")

\* datetime.datetime.fromisoformat(value) on YYYY-MM-DD?HH:MM:SS texts
fromisoformat(value) ==
    IF /\ Len(value) = 19
       /\ DateLaidOut(value, "-")
       /\ TwoDigits(HourOf(value)) /\ value[14] = ":" /\ TwoDigits(MinuteOf(value))
       /\ value[17] = ":" /\ TwoDigits(SecondOf(value))
    THEN datetime(DigitsVal(YearOf(value)), DigitsVal(MonthOf(value)), DigitsVal(DayOf(value)),
                  DigitsVal(HourOf(value)), DigitsVal(MinuteOf(value)),
                  DigitsVal(SecondOf(value)), 0)
    ELSE DtErr("ValueError", "")

\* try: ... except (ValueError, TypeError): raise DataclassCustomError(kind, ...)
OrCustom(out, exception_type) ==
    IF ~out.ok /\ out.exc \in {"ValueError", "TypeError"}
    THEN DtErr("DataclassCustomError", exception_type)
    ELSE out

\* DatetimeValidator.get_default_error
get_default_error == DtErr("DataclassCustomError", "datetime_parsing")

\* DatetimeValidator.str_or_int_to_datetime(value), value already text
str_or_int_to_datetime(value) ==
    LET length == Len(value)
        is_none == ~FloatParses(value)
        int_value == IntOfFloat(value)
        truthy == ~is_none /\ ~IsZero(int_value)
    IN IF length < year_length THEN get_default_error
       ELSE IF truthy /\ LessThan(int_value, MAXYEAR)
            THEN IF int_value.neg
                 THEN DtErr(IF Len(int_value.digits) < 10 THEN "ValueError" ELSE "OverflowError", "")
                 ELSE datetime(DigitsVal(int_value.digits), 1, 1, 0, 0, 0, 0)
       ELSE IF length = date_length /\ truthy
            THEN IF /\ IntParses(SubSeq(value, 1, year_length))
                    /\ IntParses(SubSeq(value, year_length + 1, 6))
                    /\ IntParses(SubSeq(value, year_length + 3, length))
                 THEN datetime(IntParse(SubSeq(value, 1, year_length)),
                               IntParse(SubSeq(value, year_length + 1, 6)),
                               IntParse(SubSeq(value, year_length + 3, length)), 0, 0, 0, 0)
                 ELSE DtErr("ValueError", "")
       ELSE IF length = date_length + 2 /\ truthy
            THEN fromtimestamp(int_value.digits \o Thousand)
       ELSE IF length = date_length + 2 /\ is_none
            THEN OrCustom(strptime(value, get_delimiter(value), FALSE, FALSE), "date_parsing")
       ELSE IF length = date_length + 5 /\ truthy
            THEN timestamp_to_datetime(int_value)
       ELSE IF date_length + 10 >= length /\ length >= date_length + 6 /\ truthy
            THEN timestamp_to_datetime(int_value)
       ELSE IF length = date_length + 8 /\ is_none
            THEN OrCustom(strptime(value, get_delimiter(value), TRUE, FALSE), "datetime_parsing")
       ELSE IF length = date_length + 11 /\ is_none /\ "T" \notin Range(value)
            THEN OrCustom(strptime(value, get_delimiter(value), TRUE, TRUE), "datetime_parsing")
       ELSE IF length >= date_length + 11 /\ is_none
            THEN OrCustom(fromisoformat(value), "datetime_from_rfc3339_parsing")
       ELSE get_default_error

\* DatetimeValidator.validate(value) for a text (isNumber FALSE) or for an
\* int, given by the text of str(int(value))
DatetimeValidator_validate(value, isNumber) ==
    IF ~isNumber /\ value = <<>> THEN get_default_error
    ELSE OrCustom(str_or_int_to_datetime(value), "datetime_parsing")

-----------------------------------------------------------------------------
(* Duration serializer (serializer.py, TimeDeltaSerializer)                *)

\* a datetime.timedelta in its normal form:
\* 0 <= seconds < 86400, 0 <= microseconds < 1000000
TimeDelta(days, seconds, microseconds) ==
    [days |-> days, seconds |-> seconds, microseconds |-> microseconds]

\* "%06d" % i
RECURSIVE PadTo(_, _)
PadTo(cs, n) == IF Len(cs) >= n THEN cs ELSE PadTo(<<"0">> \o cs, n)

\* str(value) of a timedelta: [D day[s], ]H:MM:SS[.ffffff]
TimeDeltaStr(value) ==
    LET mm == (value.seconds \div 60) % 60
        ss == value.seconds % 60
        hh == value.seconds \div 3600
        clock == NatToStr(hh) \o <<":">> \o Pad2(mm) \o <<":">> \o Pad2(ss)
        withDays == IF value.days # 0
                    THEN IntToStr(value.days) \o <<" ", "d", "a", "y">>
                         \o (IF Abs(value.days) # 1 THEN <<"s">> ELSE <<>>)
                         \o <<",", " ">> \o clock
                    ELSE clock
    IN IF value.microseconds # 0
       THEN withDays \o <<".">> \o PadTo(NatToStr(value.microseconds), 6)
       ELSE withDays

\* a serializer that passes through only forms shorter than 8 characters
uncheck_serialize_ShorterThanEight(value) ==
    LET str_value == TimeDeltaStr(value)
        hour == value.seconds \div 3600
        minute == (value.seconds % 3600) \div 60
        second == value.seconds % 60
    IN IF Len(str_value) < 8 THEN str_value
       ELSE (IF value.days < 0 THEN <<"-">> ELSE <<>>) \o <<"P">> \o NatToStr(Abs(value.days))
            \o <<"D", "T">>
            \o (IF hour > 0 THEN NatToStr(hour) \o <<"H">> ELSE <<>>)
            \o (IF minute > 0 THEN NatToStr(minute) \o <<"M">> ELSE <<>>)
            \o (IF second > 0 THEN NatToStr(second) \o <<"S">> ELSE <<>>)

\* TimeDeltaSerializer.uncheck_serialize
uncheck_serialize(value) ==
    LET str_value == TimeDeltaStr(value)
        length == Len(str_value)
        hour == value.seconds \div 3600
        minute == (value.seconds % 3600) \div 60
        second == value.seconds % 60
        hour_text == IF hour > 0 THEN NatToStr(hour) \o <<"H">> ELSE <<>>
        minute_text == IF minute > 0 THEN NatToStr(minute) \o <<"M">> ELSE <<>>
        second_text == IF second > 0 THEN NatToStr(second) \o <<"S">> ELSE <<>>
    IN IF length <= 8 THEN str_value
       ELSE (IF value.days < 0 THEN <<"-">> ELSE <<>>) \o <<"P">> \o NatToStr(Abs(value.days))
            \o <<"D", "T">> \o hour_text \o minute_text \o second_text

-----------------------------------------------------------------------------
(* Field model (field.py)                                                  *)

\* default_factory: "" is None, "list" builds an empty list, "none" is a
\* factory that returns None
Field(name, required, default, default_factory, validator) ==
    [name |-> name, required |-> required, default |-> default,
     default_factory |-> default_factory, validator |-> validator]

CallFactory(f) == IF f = "list" THEN ListV(<<>>) ELSE NoneV

\* a get_default_value that forgets the declared default
get_default_value_IgnoresDefault(field) ==
    IF field.default_factory # "" THEN CallFactory(field.default_factory) ELSE NoneV

\* Field.get_default_value
get_default_value(field) ==
    IF field.default # NoneV THEN field.default
    ELSE IF field.default_factory # "" THEN CallFactory(field.default_factory)
    ELSE NoneV

-----------------------------------------------------------------------------
(* State                                                                   *)

\* FastDeserializer.deserialize: one call, stepped through its field loop
VARIABLES
    dpc,         \* where the deserialize call stands
    dataclass,   \* the record type: its name and the methods its author defined
    fields,      \* the field table, in declaration order
    input,       \* the key/value map: field name -> value, AbsentV for no key
    errors,      \* the errors policy of the call
    idx,         \* 1-based position of the loop in the field table
    errs,        \* the ErrorDetail list of deserialize_init
    instance,    \* attribute name -> assigned value, AbsentV while unassigned
    attempted,   \* names of the fields the loop has processed, in order
    hookCalls,   \* names of the methods call_post_init has invoked
    raisedErr    \* the outcome of the call once it has returned or raised

dvars == <<dpc, dataclass, fields, input, errors, idx, errs, instance, attempted,
           hookCalls, raisedErr>>

\* FastSerializer.to_python: one call, stepped through its field loop
VARIABLES
    spc,            \* where the to_python call stands
    ser_fields,     \* the field table: name and bound serializer of each field
    dict_value,     \* value.__dict__: attribute name -> value, AbsentV if unset
    ser_parameter,  \* the SerParameter of the call
    ser_idx,        \* 1-based position of the loop in the field table
    out_dict,       \* the map built so far: name -> value, AbsentV if no key
    warnings,       \* the messages handed to warnings.warn, one entry per call
    ser_raised      \* the messages of the SerializationError raised, if any

svars == <<spc, ser_fields, dict_value, ser_parameter, ser_idx, out_dict, warnings, ser_raised>>

\* a single call of a pure operation (a validator, a serializer conversion):
\* the operation with its arguments, and its outcome
VARIABLES call, result

pvars == <<call, result>>

\* generate_fast_dataclass: the compilation of one record type
VARIABLES
    cpc,               \* where the compilation stands
    cls,               \* the type being compiled: its ancestors' table, own annotations, attributes
    dataclass_config,  \* the DataclassConfig of the type
    dataclass_fields,  \* the field table built so far, in dict insertion order
    base_idx,          \* 1-based position of the loop in the ancestors' table
    compile_raised,    \* the exception the compilation raised, "" for none
    ancestor_fields    \* the ancestors' table as its Field objects now stand

cvars == <<cpc, cls, dataclass_config, dataclass_fields, base_idx, compile_raised,
           ancestor_fields>>

\* repr() of objects that may refer to themselves, by two threads
VARIABLES
    rpc,           \* "idle" before the objects exist, "run" afterwards
    heap,          \* the objects: which repr they have, and what each displays
    stacks,        \* thread -> its call stack of repr frames, innermost last
    repr_running,  \* the guard's set of keys
    rendered       \* thread -> the outcome of its top-level repr() call

rvars == <<rpc, heap, stacks, repr_running, rendered>>

\* GlobalSetting, the record configurations constructed and the fields compiled
VARIABLES
    global_setting,   \* the class attributes of GlobalSetting
    configs,          \* the DataclassConfig objects constructed so far
    compiled_fields   \* the Field objects _generate_field has finished

gvars == <<global_setting, configs, compiled_fields>>

\* one StringValidator instance shared by all its callers
VARIABLES
    str_validator,    \* the instance: the flag it was built with and its allow_number attribute
    str_call          \* the latest call of its validate and the outcome

xvars == <<str_validator, str_call>>

\* A GeneratorIterator and its consumer (validator.py, GeneratorValidator)
VARIABLES
    generator         \* the wrapper, its source generator and the pulls made

yvars == <<generator>>

vars == <<dvars, svars, pvars, cvars, rvars, gvars, xvars, yvars>>

\* what an action of one part leaves alone
NotDeserialize == <<svars, pvars, cvars, rvars, gvars, xvars, yvars>>
NotSerialize == <<dvars, pvars, cvars, rvars, gvars, xvars, yvars>>
NotPure == <<dvars, svars, cvars, rvars, gvars, xvars, yvars>>
NotCompile == <<dvars, svars, pvars, rvars, gvars, xvars, yvars>>
NotRepr == <<dvars, svars, pvars, cvars, gvars, xvars, yvars>>
NotGlobal == <<dvars, svars, pvars, cvars, rvars, xvars, yvars>>
NotString == <<dvars, svars, pvars, cvars, rvars, gvars, yvars>>
NotGenerator == <<dvars, svars, pvars, cvars, rvars, gvars, xvars>>

-----------------------------------------------------------------------------
(* Record deserialization (serializer.py, FastDeserializer)                *)

\* _POST_INIT_NAME
POST_INIT_NAME == "dataclass_post_init"
\* the no-op hook FastDataclass itself defines for authors to override
BASE_HOOK_NAME == "__post_init__"

MaxFields == 2
FieldNames == <<"a", "b", "c", "d">>

FieldShapes ==
    { [required |-> TRUE,  default |-> NoneV,    default_factory |-> "",     validator |-> IntVal],
      [required |-> FALSE, default |-> NoneV,    default_factory |-> "",     validator |-> IntVal],
      [required |-> TRUE,  default |-> IntV(7),  default_factory |-> "",     validator |-> StrVal],
      [required |-> TRUE,  default |-> NoneV,    default_factory |-> "list", validator |-> ListVal(IntVal)],
      [required |-> TRUE,  default |-> NoneV,    default_factory |-> "none", validator |-> IntVal] }

InputValues ==
    { AbsentV, NoneV, IntV(1), StrV(<<"x">>), StrV(<<>>),
      ListV(<<StrV(<<"x">>), IntV(1), StrV(<<"y">>)>>) }

FieldTables ==
    UNION { { [i \in 1..n |-> Field(FieldNames[i], sh[i].required, sh[i].default,
                                    sh[i].default_factory, sh[i].validator)]
              : sh \in [1..n -> FieldShapes] } : n \in 1..MaxFields }

TableNames(tbl) == [i \in 1..Len(tbl) |-> tbl[i].name]

\* validate_iter_with_catch(v, val, loc, errs): imported by serializer.py from
\* validator.py, whose only function of that signature is catch_validate_error
validate_iter_with_catch(v, val, loc, es) == catch_validate_error(v, val, loc, es)

\* the value deserialize_init resolves for a field of a map input
ResolvedValue(field, inp) ==
    IF inp[field.name] # AbsentV THEN inp[field.name] ELSE get_default_value(field)

\* a loop body that gives up on the remaining fields once an error is recorded
DeserializeFieldStep_FailFast(field, inp, es) ==
    LET field_value == ResolvedValue(field, inp)
        c == validate_iter_with_catch(field_value, field.validator, <<LocName(field.name)>>, es)
    IN IF es # <<>> THEN [errs |-> es, assigned |-> AbsentV]
       ELSE IF field_value = NoneV /\ field.required
       THEN [errs |-> Append(es, ErrorDetail(<<LocName(field.name)>>, DictV, "missing",
                                             "field required")),
             assigned |-> AbsentV]
       ELSE IF field_value # NoneV THEN [errs |-> c.errs, assigned |-> c.ret]
       ELSE [errs |-> es, assigned |-> field_value]

\* One iteration of the loop of deserialize_init: the new error list, and the
\* value assigned to the instance (AbsentV when the iteration ends in `continue`)
DeserializeFieldStep(field, inp, es) ==
    LET field_value == ResolvedValue(field, inp)
        c == validate_iter_with_catch(field_value, field.validator, <<LocName(field.name)>>, es)
    IN IF field_value = NoneV /\ field.required
       THEN [errs |-> Append(es, ErrorDetail(<<LocName(field.name)>>, DictV, "missing",
                                             "field required")),
             assigned |-> AbsentV]
       ELSE IF field_value # NoneV THEN [errs |-> c.errs, assigned |-> c.ret]
       ELSE [errs |-> es, assigned |-> field_value]

\* the condition under which deserialize_init raises after the loop
DeserializeRaises(es, policy) == es # <<>> /\ policy # "ignore"

\* the attributes an instance inherits from its type: the methods the author
\* defined and the no-op hook of FastDataclass
HasAttr(klass, nm) == nm \in klass.methods \cup {BASE_HOOK_NAME}

\* call_post_init: the method invoked on the instance, "" for none
PostInitTarget(klass) == IF HasAttr(klass, POST_INIT_NAME) THEN POST_INIT_NAME ELSE ""

DInit ==
    /\ dpc = "idle"
    /\ dataclass = [name |-> <<"User">>, methods |-> {}]
    /\ fields = <<>>
    /\ input = [nm \in {} |-> AbsentV]
    /\ errors = "strict"
    /\ idx = 1
    /\ errs = <<>>
    /\ instance = [nm \in {} |-> AbsentV]
    /\ attempted = <<>>
    /\ hookCalls = <<>>
    /\ raisedErr = Returned(NoneV)

\* FastDeserializer.deserialize(input, errors) is entered
Deserialize ==
    /\ dpc = "idle"
    /\ \E tbl \in FieldTables, policy \in {"strict", "warn", "ignore"},
          meths \in SUBSET {BASE_HOOK_NAME, POST_INIT_NAME} :
         \E inp \in [Range(TableNames(tbl)) -> InputValues] :
            /\ fields' = tbl
            /\ input' = inp
            /\ errors' = policy
            /\ dataclass' = [dataclass EXCEPT !.methods = meths]
            /\ instance' = [nm \in Range(TableNames(tbl)) |-> AbsentV]
    /\ dpc' = "loop"
    /\ idx' = 1
    /\ errs' = <<>>
    /\ UNCHANGED <<attempted, hookCalls, raisedErr>>
    /\ UNCHANGED NotDeserialize

\* one iteration of `for field_name, field in self.fields.items()`
DeserializeField ==
    /\ dpc = "loop"
    /\ idx <= Len(fields)
    /\ LET r == DeserializeFieldStep(fields[idx], input, errs)
       IN /\ errs' = r.errs
          /\ instance' = IF r.assigned = AbsentV THEN instance
                         ELSE [instance EXCEPT ![fields[idx].name] = r.assigned]
    /\ attempted' = Append(attempted, fields[idx].name)
    /\ idx' = idx + 1
    /\ UNCHANGED <<dpc, dataclass, fields, input, errors, hookCalls, raisedErr>>
    /\ UNCHANGED NotDeserialize

\* the loop is over: `if errs and errors != 'ignore': raise ValidationError`
DeserializeInitEnd ==
    /\ dpc = "loop"
    /\ idx > Len(fields)
    /\ IF DeserializeRaises(errs, errors)
       THEN /\ dpc' = "raised"
            /\ raisedErr' = RaisedValidationError(dataclass.name, errs)
       ELSE /\ dpc' = "post_init"
            /\ UNCHANGED raisedErr
    /\ UNCHANGED <<dataclass, fields, input, errors, idx, errs, instance, attempted, hookCalls>>
    /\ UNCHANGED NotDeserialize

\* self.call_post_init(instance, context); return instance
CallPostInit ==
    /\ dpc = "post_init"
    /\ hookCalls' = IF PostInitTarget(dataclass) # ""
                    THEN Append(hookCalls, PostInitTarget(dataclass)) ELSE hookCalls
    /\ dpc' = "returned"
    /\ UNCHANGED <<dataclass, fields, input, errors, idx, errs, instance, attempted, raisedErr>>
    /\ UNCHANGED NotDeserialize

DNext == Deserialize \/ DeserializeField \/ DeserializeInitEnd \/ CallPostInit

-----------------------------------------------------------------------------
(* Record serialization (serializer.py, FastSerializer and SerParameter)   *)

\* the scalar serializers, named by their bound annotation; "any" is AnySerializer
SerializerKinds == {"str", "int", "float", "any"}

\* the attribute values of the instance being serialized
SerValues == {IntV(1), StrV(<<"a">>), FloatV(150), NoneV, AbsentV}

SerFieldTables ==
    UNION { { [i \in 1..n |-> [name |-> FieldNames[i], serializer |-> k[i]]]
              : k \in [1..n -> SerializerKinds] } : n \in 1..MaxFields }

\* SerParameter.__init__
SerParameter(mode, exclude_none, policy) ==
    [mode |-> mode, exclude_none |-> exclude_none, errors |-> policy,
     error_messages |-> <<>>, check |-> "NONE"]

\* on_fallback raising on the spot instead of recording the mismatch
on_fallback_RaisesAtOnce(parameter, expect_type, value) ==
    [raised |-> value # NoneV, parameter |-> parameter]

\* SerParameter.on_fallback / fallback_error / add_error_message:
\* [raised, parameter] where raised tells a SerializationValueError
on_fallback(parameter, expect_type, value) ==
    IF value = NoneV THEN [raised |-> FALSE, parameter |-> parameter]
    ELSE IF parameter.check # "NONE" THEN [raised |-> TRUE, parameter |-> parameter]
    ELSE [raised |-> FALSE,
          parameter |-> [parameter EXCEPT !.error_messages =
                            Append(@, [expect |-> expect_type, got |-> value.t])]]

\* str(value) of a Decimal of two decimal places, held in hundredths
DecimalToStr(c) ==
    (IF c < 0 THEN <<"-">> ELSE <<>>) \o NatToStr(Abs(c) \div 100) \o <<".">>
        \o Pad2(Abs(c) % 100)

\* value.strftime("%H:%M:%S") of a datetime.time
TimeToStr(value) ==
    Pad2(value.l[1].n) \o <<":">> \o Pad2(value.l[2].n) \o <<":">> \o Pad2(value.l[3].n)

\* MATCH_SERIALIZERS[type(value)].uncheck_to_python / uncheck_serialize: the
\* conversion the dispatch table assigns to the runtime type of the value in
\* the mode asked for. A tuple or list converts its items the same way; a
\* Decimal and a time become text in the wire-safe mode; the other scalar
\* serializers hand the value back, and a type without an entry (NoneType)
\* takes the KeyError branch, which hands the value back as well.
RECURSIVE UncheckConvert(_, _)
UncheckConvert(value, mode) ==
    IF value.t \in {"tuple", "list"}
    THEN LET items == [i \in 1..Len(value.l) |-> UncheckConvert(value.l[i], mode)]
         IN IF value.t = "tuple" /\ mode = "python" THEN TupleV(items) ELSE ListV(items)
    ELSE IF mode = "python" THEN value
    ELSE IF value.t = "decimal" THEN StrV(DecimalToStr(value.n))
    ELSE IF value.t = "time" THEN StrV(TimeToStr(value))
    ELSE value

\* serialize_any_to_python / serialize_any_to_json_value
serialize_any(value, parameter, expect_type) ==
    LET fb == IF expect_type # "" THEN on_fallback(parameter, expect_type, value)
              ELSE [raised |-> FALSE, parameter |-> parameter]
    IN [raised |-> fb.raised, value |-> UncheckConvert(value, parameter.mode),
        parameter |-> fb.parameter]

\* isinstance_safe(value, self.annotation) for the scalar serializers; bool
\* is a subclass of int
IsInstanceOf(value, annotation) ==
    value.t = annotation \/ (annotation = "int" /\ value.t = "bool")

\* Serializer.to_python / Serializer.serialize of the serializer bound to
\* `annotation`; AnySerializer passes no expected type
SerializerApply(annotation, value, parameter) ==
    IF annotation = "any" THEN serialize_any(value, parameter, "")
    ELSE IF IsInstanceOf(value, annotation)
         THEN [raised |-> FALSE, value |-> UncheckConvert(value, parameter.mode),
               parameter |-> parameter]
    ELSE serialize_any(value, parameter, annotation)

\* serialize_any_to_python (mode "python") / serialize_any_to_json_value (mode
\* "json"), called by name whatever the mode of the parameter
serialize_any_to(mode, value, parameter, expect_type) ==
    LET fb == IF expect_type # "" THEN on_fallback(parameter, expect_type, value)
              ELSE [raised |-> FALSE, parameter |-> parameter]
    IN [raised |-> fb.raised, value |-> UncheckConvert(value, mode),
        parameter |-> fb.parameter]

\* a serializer: its serializer_name, member or item serializers, variadic flag
ScalarSer(k) == [k |-> k, subs |-> <<>>, variadic |-> FALSE]
TupleSer(subs, variadic) == [k |-> "tuple", subs |-> subs, variadic |-> variadic]
UnionSer(subs) == [k |-> "union", subs |-> subs, variadic |-> FALSE]

\* the serializers that inherit Serializer.serialize, and those that define
\* their own with `return serialize_any_to_python(value, parameter)`
InheritsSerialize == {"str", "int", "float", "bool"}
OwnSerialize == {"decimal", "time"}

\* parameter.add_error_message('unexpected extra items in the tuple')
ExtraItemsMessage == [expect |-> "tuple", got |-> "extra items"]

\* TupleSerializer.check_variadic(value, parameter): the parameter afterwards
check_variadic(ser, value, parameter) ==
    IF ~ser.variadic /\ Len(value.l) > Len(ser.subs)
    THEN [parameter EXCEPT !.error_messages = Append(@, ExtraItemsMessage)]
    ELSE parameter

RECURSIVE Serializer_call(_, _, _, _)
RECURSIVE TupleItems(_, _, _, _, _, _)
RECURSIVE UnionMembers(_, _, _, _)

\* The loop of TupleSerializer.to_python / serialize over the items from the
\* i-th on: an item past the declared serializers takes the IndexError branch;
\* a SerializationValueError ends the loop, the messages added so far staying
\* in the list
TupleItems(ser, method, items, i, parameter, acc) ==
    IF i > Len(items) THEN [raised |-> FALSE, value |-> acc, parameter |-> parameter]
    ELSE LET r == IF ser.variadic THEN Serializer_call(ser.subs[1], method, items[i], parameter)
                  ELSE IF i <= Len(ser.subs)
                       THEN Serializer_call(ser.subs[i], method, items[i], parameter)
                  ELSE serialize_any_to(method, items[i], parameter, "")
         IN IF r.raised THEN [raised |-> TRUE, value |-> acc, parameter |-> r.parameter]
            ELSE TupleItems(ser, method, items, i + 1, r.parameter, Append(acc, r.value))

\* The loop of UnionSerializer.serialize over the members from the i-th on.
\* new_ser_parameter is a shallow copy: its check is ENABLED, its
\* error_messages is the caller's list itself, so `parameter` here carries
\* whatever the members appended.
UnionMembers(ser, i, value, parameter) ==
    IF i > Len(ser.subs) THEN serialize_any_to("python", value, parameter, ser.k)
    ELSE LET new_ser_parameter == [parameter EXCEPT !.check = "ENABLED"]
             r == Serializer_call(ser.subs[i], "json", value, new_ser_parameter)
             shared == [parameter EXCEPT !.error_messages = r.parameter.error_messages]
         IN IF r.raised THEN UnionMembers(ser, i + 1, value, shared)
            ELSE [raised |-> FALSE, value |-> r.value, parameter |-> shared]

\* serializer.to_python(value, parameter) (method "python") and
\* serializer.serialize(value, parameter) (method "json"):
\* [raised, value, parameter], raised telling a SerializationValueError
Serializer_call(ser, method, value, parameter) ==
    IF ser.k = "any" THEN serialize_any_to(method, value, parameter, "")
    ELSE IF ser.k \in InheritsSerialize \/ (ser.k \in OwnSerialize /\ method = "python")
    THEN IF IsInstanceOf(value, ser.k)
         THEN [raised |-> FALSE, value |-> UncheckConvert(value, method),
               parameter |-> parameter]
         ELSE serialize_any_to(method, value, parameter, ser.k)
    ELSE IF ser.k \in OwnSerialize
    THEN IF IsInstanceOf(value, ser.k)
         THEN [raised |-> FALSE, value |-> UncheckConvert(value, "json"),
               parameter |-> parameter]
         ELSE serialize_any_to("python", value, parameter, "")
    ELSE IF ser.k = "tuple"
    THEN IF value.t \notin {"tuple", "list"}
         THEN serialize_any_to("python", value, parameter, ser.k)
         ELSE LET r == TupleItems(ser, method, value.l, 1,
                                  check_variadic(ser, value, parameter), <<>>)
              IN [r EXCEPT !.value = IF method = "python" THEN TupleV(@) ELSE ListV(@)]
    \* UnionSerializer.to_python is Serializer.to_python, and no value is an
    \* instance of typing.Union
    ELSE IF method = "python" THEN serialize_any_to("python", value, parameter, ser.k)
    ELSE UnionMembers(ser, 1, value, parameter)

\* dict_value.get(field_name)
DictGet(d, nm) == IF d[nm] = AbsentV THEN NoneV ELSE d[nm]

\* SerParameter.check_error: "raise", "warn" or "" for nothing
check_error(parameter) ==
    IF parameter.errors = "ignore" THEN ""
    ELSE IF parameter.error_messages # <<>> /\ parameter.errors = "error" THEN "raise"
    ELSE IF parameter.error_messages # <<>> /\ parameter.errors = "warn" THEN "warn"
    ELSE ""

SInit ==
    /\ spc = "idle"
    /\ ser_fields = <<>>
    /\ dict_value = [nm \in {} |-> AbsentV]
    /\ ser_parameter = SerParameter("python", FALSE, "warn")
    /\ ser_idx = 1
    /\ out_dict = [nm \in {} |-> AbsentV]
    /\ warnings = <<>>
    /\ ser_raised = <<>>

\* FastSerializer.to_python(value, mode, exclude_none, errors) is entered
ToPython ==
    /\ spc = "idle"
    /\ \E tbl \in SerFieldTables, mode \in {"python", "json"}, exclude_none \in BOOLEAN,
          policy \in {"warn", "error", "ignore"} :
         \E dv \in [Range(TableNames(tbl)) -> SerValues] :
            /\ ser_fields' = tbl
            /\ dict_value' = dv
            /\ ser_parameter' = SerParameter(mode, exclude_none, policy)
            /\ out_dict' = [nm \in Range(TableNames(tbl)) |-> AbsentV]
    /\ spc' = "loop"
    /\ ser_idx' = 1
    /\ UNCHANGED <<warnings, ser_raised>>
    /\ UNCHANGED NotSerialize

\* one iteration of `for field_name, field in self.fields.items()`
ToPythonField ==
    /\ spc = "loop"
    /\ ser_idx <= Len(ser_fields)
    /\ LET field == ser_fields[ser_idx]
           serialize_value == DictGet(dict_value, field.name)
           r == SerializerApply(field.serializer, serialize_value, ser_parameter)
       IN IF ser_parameter.exclude_none /\ serialize_value = NoneV
          THEN /\ ser_idx' = ser_idx + 1
               /\ UNCHANGED <<spc, out_dict, ser_parameter>>
          ELSE IF r.raised
          THEN /\ spc' = "value_error"
               /\ UNCHANGED <<ser_idx, out_dict, ser_parameter>>
          ELSE /\ out_dict' = [out_dict EXCEPT ![field.name] = r.value]
               /\ ser_parameter' = r.parameter
               /\ ser_idx' = ser_idx + 1
               /\ UNCHANGED spc
    /\ UNCHANGED <<ser_fields, dict_value, warnings, ser_raised>>
    /\ UNCHANGED NotSerialize

\* ser_parameter.check_error(); return out_dict
ToPythonCheckError ==
    /\ spc = "loop"
    /\ ser_idx > Len(ser_fields)
    /\ LET act == check_error(ser_parameter)
       IN /\ spc' = IF act = "raise" THEN "raised" ELSE "returned"
          /\ ser_raised' = IF act = "raise" THEN ser_parameter.error_messages ELSE ser_raised
          /\ warnings' = IF act = "warn" THEN Append(warnings, ser_parameter.error_messages)
                         ELSE warnings
    /\ UNCHANGED <<ser_fields, dict_value, ser_parameter, ser_idx, out_dict>>
    /\ UNCHANGED NotSerialize

SNext == ToPython \/ ToPythonField \/ ToPythonCheckError

-----------------------------------------------------------------------------
(* Record type compilation (fast_dataclass.py, generate_fast_dataclass)    *)

\* Field.__slots__: the attributes a Field object has
FieldSlots ==
    {"name", "title", "annotation", "validator", "default", "default_factory",
     "required", "init", "repr", "alias", "val_alias", "ser_alias", "min", "max",
     "min_length", "max_length", "description", "exclude", "deprecated", "frozen",
     "init_var", "validator_kwargs", "serializer_kwargs", "sub_validator_kwargs",
     "sub_serializer_kwargs", "_field_type"}

\* a Field class without __slots__, on which any attribute may be read
FieldHasAttr_AnyAttribute(nm) == TRUE

\* reading attribute nm of a Field object succeeds
FieldHasAttr(nm) == nm \in FieldSlots

\* an entry of a field table
TableField(name, default, required, annotation) ==
    [name |-> name, default |-> default, required |-> required, annotation |-> annotation]

\* a class attribute: nothing, a plain default value, or a Field object.
\* required_set tells a Field whose `required` is True or False from one whose
\* `required` is None.
NoAttr == [kind |-> "none", default |-> NoneV, required |-> FALSE, required_set |-> FALSE,
           annotation |-> ""]
ValueAttr(v) == [kind |-> "value", default |-> v, required |-> FALSE, required_set |-> FALSE,
                 annotation |-> ""]
FieldAttr(f) == [kind |-> "field", default |-> f.default, required |-> f.required,
                 required_set |-> TRUE, annotation |-> f.annotation]
\* field(default, required=...) as written in a class body; required=None
\* when required_set is FALSE
DeclaredField(default, required_set, required) ==
    [kind |-> "field", default |-> default, required |-> required,
     required_set |-> required_set, annotation |-> ""]

\* dict.__setitem__ on an insertion-ordered dict kept as a sequence of entries
DictSetItem(d, f) ==
    IF \E i \in 1..Len(d) : d[i].name = f.name
    THEN [i \in 1..Len(d) |-> IF d[i].name = f.name THEN f ELSE d[i]]
    ELSE Append(d, f)

RECURSIVE DictUpdate(_, _)
DictUpdate(d, fs) ==
    IF fs = <<>> THEN d ELSE DictUpdate(DictSetItem(d, Head(fs)), Tail(fs))

\* _generate_field: the Field for an annotated name of the type, from the
\* attribute getattr(cls, field_name, None) finds
generate_field(attr, field_name, annotation, config) ==
    TableField(field_name, attr.default, config.required, annotation)

\* the names a type may annotate, and the defaults it may give
OwnNames == {FieldNames[i] : i \in 1..(MaxFields + 1)}

OwnAnnotations ==
    UNION { { q \in [1..n -> OwnNames] : \A i, j \in 1..n : i # j => q[i] # q[j] }
            : n \in 0..MaxFields }

OwnAttrs == {NoAttr, ValueAttr(IntV(5)), DeclaredField(IntV(9), FALSE, FALSE),
             DeclaredField(NoneV, TRUE, TRUE), DeclaredField(NoneV, TRUE, FALSE)}

\* the field tables of already compiled ancestors
AncestorTables ==
    UNION { { [i \in 1..n |-> TableField(FieldNames[i], d[i], r, "int")]
              : d \in [1..n -> {NoneV, IntV(1)}], r \in BOOLEAN } : n \in 0..MaxFields }

Configs == [required : BOOLEAN, eq : BOOLEAN, order : BOOLEAN]

CInit ==
    /\ cpc = "idle"
    /\ cls = [base_fields |-> <<>>, annotations |-> <<>>, annotation |-> "",
              attrs |-> [nm \in {} |-> NoAttr], declared |-> [nm \in {} |-> NoAttr],
              has_serializer |-> FALSE, stray_field |-> FALSE]
    /\ dataclass_config = [required |-> FALSE, eq |-> TRUE, order |-> FALSE]
    /\ dataclass_fields = <<>>
    /\ base_idx = 1
    /\ compile_raised = ""
    /\ ancestor_fields = <<>>

\* generate_fast_dataclass(cls) is entered: the type with its ancestors'
\* table, its own annotations and attributes, and its configuration.
\* A type with compiled ancestors finds their __fast_serializer__ attribute.
GenerateFastDataclass ==
    /\ cpc = "idle"
    /\ \E base_fields \in AncestorTables, annotations \in OwnAnnotations,
          annotation \in {"int", "str"}, has_serializer \in BOOLEAN,
          stray_field \in BOOLEAN, config \in Configs :
         \E attrs \in [Range(annotations) -> OwnAttrs] :
            /\ base_fields # <<>> => has_serializer
            /\ cls' = [base_fields |-> base_fields, annotations |-> annotations,
                       annotation |-> annotation,
                       attrs |-> [nm \in Range(FieldNames) |->
                                    IF nm \in Range(annotations) THEN attrs[nm] ELSE NoAttr],
                       declared |-> [nm \in Range(FieldNames) |->
                                    IF nm \in Range(annotations) THEN attrs[nm] ELSE NoAttr],
                       has_serializer |-> has_serializer, stray_field |-> stray_field]
            /\ dataclass_config' = config
            /\ ancestor_fields' = base_fields
    /\ cpc' = "serializer"
    /\ dataclass_fields' = <<>>
    /\ base_idx' = 1
    /\ UNCHANGED compile_raised
    /\ UNCHANGED NotCompile

\* fast_serializer = getattr(cls, _FAST_SERIALIZER_NAME, None);
\* FastSerializer() without its required `dataclass` argument is a TypeError
SetFastSerializer ==
    /\ cpc = "serializer"
    /\ IF cls.has_serializer
       THEN cpc' = "bases" /\ UNCHANGED compile_raised
       ELSE cpc' = "raised" /\ compile_raised' = "TypeError"
    /\ UNCHANGED <<cls, dataclass_config, dataclass_fields, base_idx, ancestor_fields>>
    /\ UNCHANGED NotCompile

\* one iteration of `for _field in base_fields.values()`
InheritField ==
    /\ cpc = "bases"
    /\ base_idx <= Len(cls.base_fields)
    /\ LET field == cls.base_fields[base_idx]
       IN /\ dataclass_fields' = DictSetItem(dataclass_fields, field)
          /\ IF FieldHasAttr("type")
             THEN /\ cls' = [cls EXCEPT !.attrs[field.name] = FieldAttr(field)]
                  /\ base_idx' = base_idx + 1
                  /\ UNCHANGED <<cpc, compile_raised>>
             ELSE /\ cpc' = "raised"
                  /\ compile_raised' = "AttributeError"
                  /\ UNCHANGED <<cls, base_idx>>
    /\ UNCHANGED <<dataclass_config, ancestor_fields>>
    /\ UNCHANGED NotCompile

\* cls.__dict__['__annotations__'] once the loop over the ancestors' table has
\* run: the type's own annotations, then the names line 396 added to them,
\* each with the annotation it was given there
cls_annotations ==
    cls.annotations \o SelectSeq([i \in 1..Len(cls.base_fields) |-> cls.base_fields[i].name],
                                 LAMBDA nm : nm \notin Range(cls.annotations))

AnnotationOf(nm) ==
    IF nm \in Range(cls.annotations) THEN cls.annotation ELSE cls.attrs[nm].annotation

\* cls_fields, their insertion into the table, and the check for Field
\* attributes without an annotation.  An inherited name finds the ancestor's
\* Field object under getattr(cls, field_name, None), and _generate_field
\* assigns to that object.
GenerateOwnFields ==
    /\ cpc = "bases"
    /\ base_idx > Len(cls.base_fields)
    /\ LET cls_fields == [i \in 1..Len(cls_annotations) |->
                            generate_field(cls.attrs[cls_annotations[i]], cls_annotations[i],
                                           AnnotationOf(cls_annotations[i]), dataclass_config)]
       IN /\ dataclass_fields' = DictUpdate(dataclass_fields, cls_fields)
          /\ cls' = [cls EXCEPT !.attrs =
                        [nm \in DOMAIN cls.attrs |->
                            IF \E i \in 1..Len(cls_fields) : cls_fields[i].name = nm
                            THEN FieldAttr(CHOOSE f \in Range(cls_fields) : f.name = nm)
                            ELSE cls.attrs[nm]]]
          /\ ancestor_fields' =
                [i \in 1..Len(ancestor_fields) |->
                    IF \E k \in 1..Len(cls_fields) : cls_fields[k].name = ancestor_fields[i].name
                    THEN CHOOSE f \in Range(cls_fields) : f.name = ancestor_fields[i].name
                    ELSE ancestor_fields[i]]
    /\ IF cls.stray_field
       THEN cpc' = "raised" /\ compile_raised' = "TypeError"
       ELSE cpc' = "fields" /\ UNCHANGED compile_raised
    /\ UNCHANGED <<dataclass_config, base_idx>>
    /\ UNCHANGED NotCompile

\* setattr(cls, _DATACLASS_FIELDS_NAME, ...), the decorator info, and the
\* eq/order check
FinishDataclass ==
    /\ cpc = "fields"
    /\ IF dataclass_config.order /\ ~dataclass_config.eq
       THEN cpc' = "raised" /\ compile_raised' = "ValueError"
       ELSE cpc' = "compiled" /\ UNCHANGED compile_raised
    /\ UNCHANGED <<cls, dataclass_config, dataclass_fields, base_idx, ancestor_fields>>
    /\ UNCHANGED NotCompile

CNext == GenerateFastDataclass \/ SetFastSerializer \/ InheritField
            \/ GenerateOwnFields \/ FinishDataclass

-----------------------------------------------------------------------------
(* Calls of the collection and union validators (validator.py)             *)

MaxArity == 2
MaxLen == 3
MaxMembers == 2

WithLength(val, min_length, max_length) ==
    [val EXCEPT !.min_length = min_length, !.max_length = max_length]

\* the (min_length, max_length) pairs a collection validator is built with
LengthBounds == {<<NoLen, NoLen>>, <<1, NoLen>>, <<NoLen, 2>>}

ScalarValues == {StrV(<<"a">>), StrV(<<"5">>), IntV(3), FloatV(250), NoneV}

SeqsUpTo(S, n) == UNION {[1..k -> S] : k \in 0..n}

InnerLists == {ListV(q) : q \in SeqsUpTo({IntV(3), StrV(<<"a">>)}, 2)}

CollectionValues ==
    {ListV(q) : q \in SeqsUpTo(ScalarValues, MaxLen)}
        \cup {TupleV(q) : q \in SeqsUpTo(ScalarValues, MaxLen)}
        \cup {ListV(q) : q \in SeqsUpTo(InnerLists \cup {IntV(3)}, 2)}

ValidatedValues == ScalarValues \cup CollectionValues

TupleValidators ==
    {WithLength(FixedTupleVal(vs), b[1], b[2]) :
        vs \in UNION {[1..n -> {StrVal, IntVal, ListVal(IntVal)}] : n \in 1..MaxArity},
        b \in LengthBounds}
    \cup {WithLength(VariadicTupleVal(item), b[1], b[2]) :
            item \in {StrVal, IntVal, AnyVal}, b \in LengthBounds}

ListValidators ==
    {WithLength(ListVal(item), b[1], b[2]) :
        item \in {StrVal, IntVal, AnyVal, ListVal(IntVal),
                  UnionVal(<<ListVal(IntVal), IntVal>>)},
        b \in LengthBounds}

UnionValidators ==
    {UnionVal(vs) :
        vs \in UNION {[1..n -> {StrVal, IntVal, ListVal(IntVal), ListVal(StrVal)}]
                        : n \in 1..MaxMembers}}

NoCall == [op |-> "none"]

PInit == call = NoCall /\ result = NoCall

\* TupleValidator.validate(value)
TupleValidate ==
    /\ call = NoCall
    /\ \E val \in TupleValidators, value \in ValidatedValues :
          /\ call' = [op |-> "tuple", val |-> val, value |-> value]
          /\ result' = [op |-> "tuple", out |-> Validate(val, value)]
    /\ UNCHANGED NotPure

\* ListValidator.validate(value)
ListValidate ==
    /\ call = NoCall
    /\ \E val \in ListValidators, value \in ValidatedValues :
          /\ call' = [op |-> "list", val |-> val, value |-> value]
          /\ result' = [op |-> "list", out |-> Validate(val, value)]
    /\ UNCHANGED NotPure

\* UnionValidator.validate(value)
UnionValidate ==
    /\ call = NoCall
    /\ \E val \in UnionValidators, value \in ValidatedValues :
          /\ call' = [op |-> "union", val |-> val, value |-> value]
          /\ result' = [op |-> "union", out |-> Validate(val, value)]
    /\ UNCHANGED NotPure

\* the per-field step of deserialize_init on a field bound to a list validator:
\* validate_iter_with_catch(field_value, field.validator, [field_name], errs)
FieldValidate ==
    /\ call = NoCall
    /\ \E val \in ListValidators, value \in ValidatedValues, field_name \in {"a", "b"} :
          LET c == validate_iter_with_catch(value, val, <<LocName(field_name)>>, <<>>)
          IN /\ call' = [op |-> "field", val |-> val, value |-> value,
                         field_name |-> field_name]
             /\ result' = [op |-> "field", ret |-> c.ret, errs |-> c.errs]
    /\ UNCHANGED NotPure

\* the texts handed to the date-time validator: digit runs of every length,
\* the same with a decimal point, and dates and times written with
\* separators; MaxDigits bounds the length of the digit runs
MaxDigits == 19

DigitStems ==
    { <<"1","7","1","8","2","4","5","6","0","0","0","0","0">>,
      <<"1","7","1","8","2","4","5","6","0","0","1","2","3">>,
      <<"0","0","0","1","7","1","8","2","4","5","6","0","0">>,
      <<"2","0","2","4","0","2","0","4","1","0","1","5","3">>,
      <<"2","0","2","3","0","2","2","9","0","0","0","0","0">>,
      <<"9","9","9","9","1","3","0","1","0","0","0","0","0">>,
      <<"0","0","0","0","0","0","0","0","0","0","0","0","0">> }

\* the first n characters of the stem repeated without end
DigitRun(stem, n) == [i \in 1..n |-> stem[((i - 1) % Len(stem)) + 1]]

DigitTexts == {DigitRun(stem, n) : stem \in DigitStems, n \in 1..MaxDigits}

DecimalTexts ==
    UNION { { SubSeq(ds, 1, p) \o <<".">> \o SubSeq(ds, p + 1, Len(ds)) : p \in 0..Len(ds) }
            : ds \in {DigitRun(stem, n) : stem \in DigitStems, n \in 1..(MaxDigits - 1)} }

DateTexts ==
    { y \o <<s1>> \o mo \o <<s2>> \o d :
        y \in {<<"2","0","2","4">>, <<"2","0","2","3">>, <<"0","0","0","0">>},
        s1 \in {"-", "/", "."}, s2 \in {"-", "/", "."},
        mo \in {<<"0","2">>, <<"1","3">>}, d \in {<<"0","4">>, <<"2","9">>, <<"0","0">>} }

ClockTexts ==
    { <<sep>> \o h \o <<":">> \o mi :
        sep \in {" ", "T"}, h \in {<<"1","0">>, <<"2","4">>}, mi \in {<<"1","5">>, <<"6","0">>} }

SecondTexts == { <<":">> \o sec : sec \in {<<"3","0">>, <<"6","1">>} }

SomeDates ==
    { y \o <<s1>> \o <<"0","2">> \o <<s1>> \o d :
        y \in {<<"2","0","2","4">>, <<"2","0","2","3">>}, s1 \in {"-", "/"},
        d \in {<<"0","4">>, <<"2","9">>} }

DateTimeTexts ==
    {d \o c : d \in SomeDates, c \in ClockTexts}
        \cup {d \o c \o sec : d \in SomeDates, c \in ClockTexts, sec \in SecondTexts}

OtherTexts ==
    {[i \in 1..n |-> "x"] : n \in 0..(MaxDigits + 2)}
        \cup {[i \in 1..n |-> IF i = 11 THEN "T" ELSE "x"] : n \in 11..(MaxDigits + 2)}
        \cup {<<"-","5","0","0">>, <<"2","0","2","4",".","0">>, <<"2","0","2","4",".","5","0","0">>}

DatetimeTexts == DigitTexts \cup DecimalTexts \cup DateTexts \cup DateTimeTexts \cup OtherTexts

\* str(i) of the ints handed to the validator
DatetimeNumbers == {Canon(ds) : ds \in DigitTexts}

\* DatetimeValidator.validate(value) on a text
DatetimeValidateText ==
    /\ call = NoCall
    /\ \E value \in DatetimeTexts :
          /\ call' = [op |-> "datetime", value |-> value, number |-> FALSE]
          /\ result' = [op |-> "datetime", out |-> DatetimeValidator_validate(value, FALSE)]
    /\ UNCHANGED NotPure

\* DatetimeValidator.validate(value) on an int
DatetimeValidateNumber ==
    /\ call = NoCall
    /\ \E value \in DatetimeNumbers :
          /\ call' = [op |-> "datetime", value |-> value, number |-> TRUE]
          /\ result' = [op |-> "datetime", out |-> DatetimeValidator_validate(value, TRUE)]
    /\ UNCHANGED NotPure

\* a datetime.date
Date(y, mo, d) ==
    [kind |-> "date", y |-> y, mo |-> mo, d |-> d, h |-> 0, mi |-> 0, sec |-> 0, us |-> 0,
     ms |-> <<>>]

\* value.date() of a datetime.datetime: the calendar day of a civil date-time,
\* the day on which an instant falls
datetime_to_date(dt) ==
    IF dt.kind = "civil" THEN Date(dt.y, dt.mo, dt.d)
    ELSE [dt EXCEPT !.kind = "instant_date"]

\* isinstance(value, datetime.date): datetime.datetime is a subclass of it
IsDateInstance(value) == value.kind \in {"date", "datetime"}

DateValueError == DtErr("ValueError", "")

\* DateValidator.validate(value); value.kind tells a native date, a native
\* date-time, a text, an int (given by the text of str(value)) or None apart.
\* DataclassCustomError is a ValueError, so `except ValueError` catches it.
DateValidator_validate(value) ==
    IF IsDateInstance(value) THEN DtOk(value.native)
    ELSE IF value.kind \in {"text", "number"}
         THEN LET out == str_or_int_to_datetime(value.text)
              IN IF out.ok THEN DtOk(datetime_to_date(out.dt))
                 ELSE IF out.exc \in {"ValueError", "DataclassCustomError"} THEN DateValueError
                 ELSE out
    ELSE DateValueError

NativeDates == {Date(2024, 2, 29), Date(1, 1, 1)}
NativeDatetimes ==
    {Civil(2024, 2, 29, 10, 15, 30, 0), Civil(2024, 2, 29, 0, 0, 0, 0),
     Civil(2023, 12, 31, 23, 59, 59, 5)}

DateInputs ==
    {[kind |-> "date", native |-> d, text |-> <<>>] : d \in NativeDates}
    \cup {[kind |-> "datetime", native |-> d, text |-> <<>>] : d \in NativeDatetimes}
    \cup {[kind |-> "text", native |-> Instant(<<>>), text |-> cs] : cs \in DatetimeTexts}
    \cup {[kind |-> "number", native |-> Instant(<<>>), text |-> cs] : cs \in DatetimeNumbers}
    \cup {[kind |-> "none", native |-> Instant(<<>>), text |-> <<>>]}

\* DateValidator.validate(value)
DateValidate ==
    /\ call = NoCall
    /\ \E value \in DateInputs :
          /\ call' = [op |-> "date", value |-> value]
          /\ result' = [op |-> "date", out |-> DateValidator_validate(value)]
    /\ UNCHANGED NotPure

TNext == DatetimeValidateText \/ DatetimeValidateNumber \/ DateValidate

\* the durations serialized: up to MaxDays days either way, a clock time,
\* and a fraction of a second or none
MaxDays == 2

TimeDeltas ==
    {TimeDelta(days, h * 3600 + mi * 60 + sec, us) :
        days \in (-MaxDays)..MaxDays, h \in {0, 1, 3, 10, 23}, mi \in {0, 3, 59},
        sec \in {0, 4, 59}, us \in {0, 500000}}

\* TimeDeltaSerializer.serialize(value, parameter) on a timedelta
TimeDeltaSerialize ==
    /\ call = NoCall
    /\ \E value \in TimeDeltas :
          /\ call' = [op |-> "timedelta", value |-> value]
          /\ result' = [op |-> "timedelta", text |-> uncheck_serialize(value)]
    /\ UNCHANGED NotPure

-----------------------------------------------------------------------------
(* Mapping validator (validator.py, DictValidator)                         *)

\* a mapping: its entries in insertion order, each a (key, value) pair
MapV(entries) == [t |-> "dict", n |-> 0, s |-> <<>>, l |-> entries]
Pair(k, v) == TupleV(<<k, v>>)
KeyOf(entry) == entry.l[1]
ValueOf(entry) == entry.l[2]

\* a length bound that holds a type object instead of a number: what
\* DictValidator.build passes on, `cls(key_validator, value_validator, *_args)`
TypeLen == -2

DictVal(key_validator, value_validator, min_length, max_length) ==
    [AnyVal EXCEPT !.k = "dict", !.subs = <<key_validator, value_validator>>,
                   !.min_length = min_length, !.max_length = max_length]

\* DictValidator.build for an annotation with two type arguments
DictValidator_build(key_validator, value_validator) ==
    DictVal(key_validator, value_validator, TypeLen, TypeLen)

\* dict(pairs): a later pair with an equal key replaces the value in place
RECURSIVE DictOf(_, _)
DictOf(pairs, acc) ==
    IF pairs = <<>> THEN acc
    ELSE LET p == Head(pairs)
             hit == {k \in 1..Len(acc) : KeyOf(acc[k]) = KeyOf(p)}
         IN DictOf(Tail(pairs),
                   IF hit = {} THEN Append(acc, p)
                   ELSE [k \in 1..Len(acc) |-> IF k \in hit THEN p ELSE acc[k]])

Column(entries, part) == [k \in 1..Len(entries) |-> entries[k].l[part]]

\* DictValidator.validate
DictValidator_validate(val, value) ==
    IF value.t # "dict" THEN RaisedCustom("dict_type", "input should be a mapping")
    ELSE IF val.min_length = TypeLen \/ val.max_length = TypeLen
         THEN RaisedPlain("TypeError", "'<' not supported between instances of 'int' and 'type'")
    ELSE IF check_collection_length(Len(value.l), val.min_length, val.max_length) # ""
         THEN RaisedCustom(check_collection_length(Len(value.l), val.min_length, val.max_length), "")
    ELSE IF val.subs[1].k = "any" /\ val.subs[2].k = "any" THEN Returned(value)
    ELSE LET ks == IF val.subs[1].k = "any"
                   THEN [res |-> Column(value.l, 1), errs |-> <<>>]
                   ELSE IterItems(val.subs[1], Column(value.l, 1), 1, <<>>, <<>>)
             vs == IF val.subs[2].k = "any"
                   THEN [res |-> Column(value.l, 2), errs |-> ks.errs]
                   ELSE IterItems(val.subs[2], Column(value.l, 2), 1, <<>>, ks.errs)
         IN Returned(MapV(DictOf([k \in 1..Len(value.l) |-> Pair(ks.res[k], vs.res[k])], <<>>)))

\* the mapping validators and the values handed to them
DictKeys == {StrV(<<"a">>), StrV(<<"b">>), IntV(1), NoneV}
DictValues == {IntV(1), StrV(<<"2">>), StrV(<<"x">>), NoneV, ListV(<<StrV(<<"x">>)>>)}
DictInputs ==
    {MapV(<<>>)}
    \cup {MapV(<<Pair(k, v)>>) : k \in DictKeys, v \in DictValues}
    \cup {MapV(<<Pair(k1, v1), Pair(k2, v2)>>) :
             k1 \in {StrV(<<"a">>), IntV(1)}, k2 \in {StrV(<<"b">>), NoneV},
             v1 \in {IntV(1), StrV(<<"x">>)}, v2 \in {StrV(<<"2">>), NoneV}}
    \cup {IntV(1), ListV(<<IntV(1)>>)}
DictValidators ==
    {DictVal(kv, vv, mn, mx) :
        kv \in {AnyVal, StrVal, IntVal}, vv \in {AnyVal, IntVal, ListVal(IntVal)},
        mn \in {NoLen, 1}, mx \in {NoLen, 1}}
    \cup {DictValidator_build(kv, vv) : kv \in {StrVal}, vv \in {AnyVal, IntVal}}

\* DictValidator.validate(value)
DictValidate ==
    /\ call = NoCall
    /\ \E val \in DictValidators, value \in DictInputs :
          /\ call' = [op |-> "dict", val |-> val, value |-> value]
          /\ result' = [op |-> "dict", out |-> DictValidator_validate(val, value)]
    /\ UNCHANGED NotPure

VNext == TupleValidate \/ ListValidate \/ UnionValidate \/ FieldValidate \/ DictValidate

-----------------------------------------------------------------------------
(* Enumeration validator (validator.py, IntEnumValidator)                  *)

\* a member of the enum.IntEnum class named enum_name, valued n
IntEnumV(enum_name, n) == [t |-> "int_enum", n |-> n, s |-> <<enum_name>>, l |-> <<>>]

\* an enum.IntEnum class: its name and the values of its members
IntEnumClass(enum_name, member_values) == [name |-> enum_name, values |-> member_values]

\* int(value): the integer, or the exception raised
IntOf(value) ==
    IF value.t \in {"int", "bool", "int_enum"} THEN [exc |-> "", n |-> value.n]
    ELSE IF value.t = "float" THEN [exc |-> "", n |-> TruncDiv(value.n, 100)]
    ELSE IF value.t = "str"
         THEN IF IntParses(value.s) THEN [exc |-> "", n |-> IntParse(value.s)]
              ELSE [exc |-> "ValueError", n |-> 0]
    ELSE [exc |-> "TypeError", n |-> 0]

\* enum_class(n): the member valued n, or ValueError
EnumLookup(enum_class, n) ==
    IF n \in enum_class.values THEN Returned(IntEnumV(enum_class.name, n))
    ELSE RaisedPlain("ValueError", "not a valid member")

\* IntEnumValidator.validate
IntEnumValidator_validate(enum_class, value) ==
    IF value.t = "int_enum" THEN Returned(value)
    ELSE IF IntOf(value).exc = "" /\ EnumLookup(enum_class, IntOf(value).n).ok
         THEN EnumLookup(enum_class, IntOf(value).n)
    ELSE RaisedCustom("int_enum_parsing", "input should be one of the values")

\* the enumerations a validator is bound to and the values handed to it
IntEnumClasses ==
    {IntEnumClass("Color", {1, 2}), IntEnumClass("Level", {0, 3}),
     IntEnumClass("Flag", {1})}
IntEnumInputs ==
    {IntV(i) : i \in -1..4}
    \cup {StrV(cs) : cs \in {<<"1">>, <<"2">>, <<"0">>, <<" ", "1">>, <<"+", "2">>, <<"0", "1">>,
                             <<"9", "9">>, <<"a">>, <<"1", ".", "0">>, <<>>, <<"-", "1">>}}
    \cup {FloatV(c) : c \in {100, 150, 200, 9900}}
    \cup {BoolV(b) : b \in BOOLEAN}
    \cup {NoneV, ListV(<<IntV(1)>>)}
    \cup {IntEnumV(e.name, n) : e \in {IntEnumClass("Other", {1, 99})} \cup IntEnumClasses,
                                n \in {0, 1, 2, 3, 99}}

\* IntEnumValidator.validate(value)
IntEnumValidate ==
    /\ call = NoCall
    /\ \E enum_class \in IntEnumClasses, value \in IntEnumInputs :
          /\ value.t = "int_enum" =>
                \/ value.s = <<"Other">> /\ value.n \in {1, 99}
                \/ \E e \in IntEnumClasses : value.s = <<e.name>> /\ value.n \in e.values
          /\ call' = [op |-> "int_enum", enum_class |-> enum_class, value |-> value]
          /\ result' = [op |-> "int_enum", out |-> IntEnumValidator_validate(enum_class, value)]
    /\ UNCHANGED NotPure

\* the fractional numbers handed to the integer validator, in hundredths
MaxHundredths == 250

\* A float whose sum with 0.11 is a whole number in decimal lands within one
\* rounding error of it in binary, on either side; those are left out.
FloatInputs ==
    {FloatV(c) : c \in {h \in -MaxHundredths..MaxHundredths :
                            (h + HalfAdjustHundredths) % 100 # 0}}

DecimalInputs == {DecimalV(c) : c \in -MaxHundredths..MaxHundredths}

IntegerInputs ==
    FloatInputs \cup DecimalInputs
    \cup {IntV(-2), IntV(0), IntV(3), NoneV, StrV(<<"4", "2">>), StrV(<<"x">>)}

\* IntegerValidator.validate(value)
IntegerValidate ==
    /\ call = NoCall
    /\ \E value \in IntegerInputs :
          /\ call' = [op |-> "int", value |-> value]
          /\ result' = [op |-> "int", out |-> IntegerValidator_validate(value)]
    /\ UNCHANGED NotPure

\* datetime.time(hour, minute, second)
datetime_time(hour, minute, second) ==
    IF hour \in 0..23 /\ minute \in 0..59 /\ second \in 0..59
    THEN Returned(TimeV(hour, minute, second))
    ELSE RaisedPlain("ValueError", "out of range")

\* TimeValidator.get_default_error()
TimeValidator_get_default_error == RaisedCustom("time_parsing", "input should be a valid time")

\* int(text) of a slice of str(value), then datetime.time(hour, minute, 0)
TimeOfSlices(hh, mm) ==
    IF IntParses(hh) /\ IntParses(mm) THEN datetime_time(IntParse(hh), IntParse(mm), 0)
    ELSE RaisedPlain("ValueError", "invalid literal for int()")

\* TimeValidator.int_to_time(value)
TimeValidator_int_to_time(mode, value) ==
    IF mode = "second"
    THEN LET hour == value \div 3600
             minute == value \div 60
             second == value % 60
         IN datetime_time(hour, minute, second)
    ELSE LET str_value == IntToStr(value)
             length == Len(str_value)
         IN IF length = 3
            THEN TimeOfSlices(SubSeq(str_value, 1, 1), SubSeq(str_value, 2, 3))
            ELSE IF length = 4
            THEN TimeOfSlices(SubSeq(str_value, 1, 2), SubSeq(str_value, 3, 4))
            ELSE TimeValidator_get_default_error

\* datetime.time.fromisoformat on HH:MM and HH:MM:SS; any other text is refused
time_fromisoformat(value) ==
    IF /\ Len(value) \in {5, 8}
       /\ TwoDigits(SubSeq(value, 1, 2)) /\ value[3] = ":" /\ TwoDigits(SubSeq(value, 4, 5))
       /\ Len(value) = 8 => (value[6] = ":" /\ TwoDigits(SubSeq(value, 7, 8)))
    THEN datetime_time(DigitsVal(SubSeq(value, 1, 2)), DigitsVal(SubSeq(value, 4, 5)),
                       IF Len(value) = 8 THEN DigitsVal(SubSeq(value, 7, 8)) ELSE 0)
    ELSE RaisedPlain("ValueError", "Invalid isoformat string")

\* TimeValidator.str_to_time(value)
TimeValidator_str_to_time(value) ==
    IF Len(value) >= 5
    THEN IF time_fromisoformat(value).ok THEN time_fromisoformat(value)
         ELSE RaisedCustom("time_from_rfc3339_parsing", "cannot parse RFC time format")
    ELSE TimeValidator_get_default_error

\* TimeValidator.validate(value) of a validator built with `mode`
TimeValidator_validate(mode, value) ==
    IF value.t = "time" THEN Returned(value)
    ELSE IF value.t \in {"int", "bool"} THEN TimeValidator_int_to_time(mode, value.n)
    ELSE IF value.t = "float" THEN TimeValidator_int_to_time(mode, TruncDiv(value.n, 100))
    ELSE IF IsStr(value) /\ value.s # <<>> THEN TimeValidator_str_to_time(value.s)
    ELSE TimeValidator_get_default_error

\* the integers handed to the time validator: every one from -1 to MaxSeconds
\* and the last seconds of the day
MaxSeconds == 3700

TimeInputs ==
    {IntV(i) : i \in (-1..MaxSeconds) \cup {7199, 7200, 43200, 86399, 86400}}
    \cup {BoolV(TRUE), FloatV(150), FloatV(-50), NoneV, TimeV(1, 2, 3),
          StrV(<<>>), StrV(<<"a", "b">>), StrV(<<"h", "e", "l", "l", "o">>),
          StrV(<<"1", "2", ":", "3", "0">>), StrV(<<"2", "5", ":", "0", "0">>),
          StrV(<<"1", "2", ":", "3", "0", ":", "4", "5">>)}

\* TimeValidator(mode).validate(value)
TimeValidate ==
    /\ call = NoCall
    /\ \E mode \in {"second", "time"}, value \in TimeInputs :
          /\ call' = [op |-> "time", mode |-> mode, value |-> value]
          /\ result' = [op |-> "time", out |-> TimeValidator_validate(mode, value)]
    /\ UNCHANGED NotPure

\* calls of the scalar validators
ScalarNext == IntEnumValidate \/ IntegerValidate \/ TimeValidate

-----------------------------------------------------------------------------
(* Text rendering: FastDataclass.__repr__ (fast_dataclass.py) and the      *)
(* reentrant-repr guard _recursive_repr (utils.py), which wraps            *)
(* Field.__repr__.  A rendering is a sequence of tokens.                   *)

Threads == {"A", "B"}
Objects == {"a", "b"}

\* sys.getrecursionlimit(), scaled down: the deepest call stack of frames
RecursionLimit == 3

\* what an object displays: the objects among its displayed attribute values
Displays == {<<>>, <<"a">>, <<"b">>, <<"a", "b">>}

\* the key of the guard's marker: id(self), _thread.get_ident()
GuardKey_ObjectOnly(obj, thread) == <<obj, "">>

GuardKey(obj, thread) == <<obj, thread>>

Frame(obj, pc) == [obj |-> obj, pc |-> pc, i |-> 1, acc |-> <<>>]

NotCalled == [called |-> FALSE, done |-> FALSE, obj |-> "", exc |-> "", text |-> <<>>]

Top(stack) == stack[Len(stack)]
Pop(stack) == SubSeq(stack, 1, Len(stack) - 1)
SetTop(stack, frame) == [stack EXCEPT ![Len(stack)] = frame]

\* the innermost frame returns `text` to its caller: the frame below takes it
\* as the repr of the attribute it was displaying, the thread itself takes it
\* as the result of the top-level call
ReprReturn(thread, text) ==
    LET rest == Pop(stacks[thread])
    IN IF rest = <<>>
       THEN /\ stacks' = [stacks EXCEPT ![thread] = <<>>]
            /\ rendered' = [rendered EXCEPT ![thread].done = TRUE, ![thread].text = text]
       ELSE /\ stacks' = [stacks EXCEPT ![thread] =
                 SetTop(rest, [Top(rest) EXCEPT !.i = @ + 1, !.acc = @ \o text])]
            /\ UNCHANGED rendered

\* the keys the `finally` clauses of a thread's frames discard while an
\* exception unwinds its stack
KeysHeld(thread) ==
    {GuardKey(stacks[thread][k].obj, thread) :
        k \in {j \in 1..Len(stacks[thread]) : stacks[thread][j].pc \in {"body", "discard"}}}

RInit ==
    /\ rpc = "idle"
    /\ heap = [guarded |-> TRUE, displays |-> [o \in Objects |-> <<>>]]
    /\ stacks = [t \in Threads |-> <<>>]
    /\ repr_running = {}
    /\ rendered = [t \in Threads |-> NotCalled]

\* the objects are built: Field objects, whose __repr__ is wrapped by the
\* guard, or record instances, whose __repr__ is FastDataclass.__repr__
ReprBuild ==
    /\ rpc = "idle"
    /\ \E guarded \in BOOLEAN, displays \in [Objects -> Displays] :
          heap' = [guarded |-> guarded, displays |-> displays]
    /\ rpc' = "run"
    /\ UNCHANGED <<stacks, repr_running, rendered>>
    /\ UNCHANGED NotRepr

\* a thread calls repr(obj)
ReprCall ==
    /\ rpc = "run"
    /\ \E thread \in Threads, obj \in Objects :
          /\ ~rendered[thread].called
          /\ stacks' = [stacks EXCEPT ![thread] =
                           <<Frame(obj, IF heap.guarded THEN "check" ELSE "body")>>]
          /\ rendered' = [rendered EXCEPT ![thread].called = TRUE, ![thread].obj = obj]
    /\ UNCHANGED <<rpc, heap, repr_running>>
    /\ UNCHANGED NotRepr

\* wrapper: key = id(self), _thread.get_ident(); if key in repr_running: return '...'
GuardCheck ==
    /\ \E thread \in Threads :
          /\ stacks[thread] # <<>>
          /\ Top(stacks[thread]).pc = "check"
          /\ IF GuardKey(Top(stacks[thread]).obj, thread) \in repr_running
             THEN ReprReturn(thread, <<"...">>)
             ELSE /\ stacks' = [stacks EXCEPT ![thread] =
                                   SetTop(@, [Top(@) EXCEPT !.pc = "add"])]
                  /\ UNCHANGED rendered
    /\ UNCHANGED <<rpc, heap, repr_running>>
    /\ UNCHANGED NotRepr

\* wrapper: repr_running.add(key)
GuardAdd ==
    /\ \E thread \in Threads :
          /\ stacks[thread] # <<>>
          /\ Top(stacks[thread]).pc = "add"
          /\ repr_running' = repr_running \cup {GuardKey(Top(stacks[thread]).obj, thread)}
          /\ stacks' = [stacks EXCEPT ![thread] = SetTop(@, [Top(@) EXCEPT !.pc = "body"])]
    /\ UNCHANGED <<rpc, heap, rendered>>
    /\ UNCHANGED NotRepr

\* the repr function proper: it formats the next displayed attribute with !r,
\* which calls that object's __repr__, or it has formatted them all.  A call
\* beyond the recursion limit raises RecursionError, which no frame catches.
ReprBody ==
    /\ \E thread \in Threads :
          /\ stacks[thread] # <<>>
          /\ Top(stacks[thread]).pc = "body"
          /\ LET frame == Top(stacks[thread])
                 shown == heap.displays[frame.obj]
             IN IF frame.i <= Len(shown)
                THEN IF Len(stacks[thread]) >= RecursionLimit
                     THEN /\ stacks' = [stacks EXCEPT ![thread] = <<>>]
                          /\ repr_running' = repr_running \ KeysHeld(thread)
                          /\ rendered' = [rendered EXCEPT ![thread].done = TRUE,
                                                          ![thread].exc = "RecursionError"]
                     ELSE /\ stacks' = [stacks EXCEPT ![thread] =
                                 Append(@, Frame(shown[frame.i],
                                                 IF heap.guarded THEN "check" ELSE "body"))]
                          /\ UNCHANGED <<repr_running, rendered>>
                ELSE LET text == <<frame.obj, "(">> \o frame.acc \o <<")">>
                     IN IF heap.guarded
                        THEN /\ stacks' = [stacks EXCEPT ![thread] =
                                    SetTop(@, [frame EXCEPT !.pc = "discard", !.acc = text])]
                             /\ UNCHANGED <<repr_running, rendered>>
                        ELSE /\ ReprReturn(thread, text)
                             /\ UNCHANGED repr_running
    /\ UNCHANGED <<rpc, heap>>
    /\ UNCHANGED NotRepr

\* wrapper: finally: repr_running.discard(key); return result
GuardDiscard ==
    /\ \E thread \in Threads :
          /\ stacks[thread] # <<>>
          /\ Top(stacks[thread]).pc = "discard"
          /\ repr_running' = repr_running \ {GuardKey(Top(stacks[thread]).obj, thread)}
          /\ ReprReturn(thread, Top(stacks[thread]).acc)
    /\ UNCHANGED <<rpc, heap>>
    /\ UNCHANGED NotRepr

RNext == ReprBuild \/ ReprCall \/ GuardCheck \/ GuardAdd \/ ReprBody \/ GuardDiscard

-----------------------------------------------------------------------------
(* Global settings and record configuration (globals.py,                   *)
(* dataclass_config.py)                                                    *)

\* an optional[bool]: None, or a boolean
Unset == [set |-> FALSE, v |-> FALSE]
Given(b) == [set |-> TRUE, v |-> b]

LanguageCodes == {"zh-Hans", "en"}

\* the configurations constructed and the fields compiled in one run
MaxConfigs == 2

\* a configuration that takes the global default whatever was passed
DataclassConfig_post_init_AlwaysGlobal(required, default_required) == default_required

\* DataclassConfig.__post_init__: the required flag after construction
DataclassConfig_post_init(required, default_required) ==
    IF ~required.set THEN default_required ELSE required.v

GInit ==
    /\ global_setting = [LANGUAGE_CODE |-> "zh-Hans", DATACLASS_DEFAULT_REQUIRED |-> FALSE,
                         USE_I18N |-> TRUE]
    /\ configs = <<>>
    /\ compiled_fields = <<>>

\* GlobalSetting.set_language
SetLanguage ==
    /\ \E language_code \in LanguageCodes :
          global_setting' = [global_setting EXCEPT !.LANGUAGE_CODE = language_code]
    /\ UNCHANGED <<configs, compiled_fields>>
    /\ UNCHANGED NotGlobal

\* GlobalSetting.set_i18n
SetI18n ==
    /\ \E use_i18n \in BOOLEAN :
          global_setting' = [global_setting EXCEPT !.USE_I18N = use_i18n]
    /\ UNCHANGED <<configs, compiled_fields>>
    /\ UNCHANGED NotGlobal

\* GlobalSetting.set_dataclass_default_required
SetDataclassDefaultRequired ==
    /\ \E default_required \in BOOLEAN :
          global_setting' = [global_setting EXCEPT
                                !.DATACLASS_DEFAULT_REQUIRED = default_required]
    /\ UNCHANGED <<configs, compiled_fields>>
    /\ UNCHANGED NotGlobal

\* DataclassConfig(required=...): `passed` and `default_then` record what the
\* constructor was given and what the global default was at that moment
ConstructConfig ==
    /\ Len(configs) < MaxConfigs
    /\ \E required \in {Unset, Given(TRUE), Given(FALSE)} :
          configs' = Append(configs,
              [required |-> DataclassConfig_post_init(
                                required, global_setting.DATACLASS_DEFAULT_REQUIRED),
               passed |-> required,
               default_then |-> global_setting.DATACLASS_DEFAULT_REQUIRED])
    /\ UNCHANGED <<global_setting, compiled_fields>>
    /\ UNCHANGED NotGlobal

\* _generate_field for a field of a type with configuration k:
\* field.required = dataclass_config.required
CompileFieldOf ==
    /\ Len(compiled_fields) < MaxConfigs
    /\ \E k \in 1..Len(configs) :
          compiled_fields' = Append(compiled_fields,
              [required |-> generate_field(NoAttr, "a", "int", configs[k]).required,
               config |-> k])
    /\ UNCHANGED <<global_setting, configs>>
    /\ UNCHANGED NotGlobal

GNext == SetLanguage \/ SetI18n \/ SetDataclassDefaultRequired \/ ConstructConfig
            \/ CompileFieldOf

-----------------------------------------------------------------------------
(* A shared StringValidator instance (validator.py, StringValidator)       *)

NoStrCall == [made |-> FALSE, value |-> NoneV, allow_number |-> Unset, out |-> Returned(NoneV)]

\* the values handed to a string validator
StringInputs ==
    {StrV(<<>>), StrV(<<"a">>), StrV(<<"1", "2">>), StrV(<<" ">>),
     StrV(<<"T", "r", "u", "e">>), IntV(0), IntV(12), IntV(-3), FloatV(150), FloatV(200),
     BoolV(TRUE), BoolV(FALSE),
     NoneV, ListV(<<>>)}

\* the attribute self.allow_number after the first statement of validate
AllowNumberAfter(current, allow_number) ==
    IF ~allow_number.set THEN current ELSE allow_number.v

XInit ==
    /\ str_validator = [built |-> FALSE, built_with |-> TRUE, allow_number |-> TRUE]
    /\ str_call = NoStrCall

\* StringValidator(allow_number=...)
StringValidatorBuild ==
    /\ ~str_validator.built
    /\ \E allow_number \in BOOLEAN :
          str_validator' = [built |-> TRUE, built_with |-> allow_number,
                            allow_number |-> allow_number]
    /\ UNCHANGED str_call
    /\ UNCHANGED NotString

\* StringValidator.validate(value, allow_number) on the shared instance
StringValidatorValidate ==
    /\ str_validator.built
    /\ \E value \in StringInputs, allow_number \in {Unset, Given(TRUE), Given(FALSE)} :
          LET flag == AllowNumberAfter(str_validator.allow_number, allow_number)
          IN /\ str_validator' = [str_validator EXCEPT !.allow_number = flag]
             /\ str_call' = [made |-> TRUE, value |-> value, allow_number |-> allow_number,
                             out |-> StringValidator_validate(
                                         [StrVal EXCEPT !.allow_number = flag], value)]
    /\ UNCHANGED NotString

XNext == StringValidatorBuild \/ StringValidatorValidate

-----------------------------------------------------------------------------
(* Calls of single serializers (serializer.py)                             *)

\* the serializers called on their own
ScalarSerializers == {ScalarSer(k) : k \in InheritsSerialize \cup OwnSerialize \cup {"any"}}

TupleSerializers ==
    {TupleSer(<<ScalarSer("int")>>, FALSE), TupleSer(<<ScalarSer("int")>>, TRUE),
     TupleSer(<<ScalarSer("int"), ScalarSer("str")>>, FALSE)}

UnionSerializers ==
    {UnionSer(<<a, b>>) : a, b \in {ScalarSer("int"), ScalarSer("str"), ScalarSer("float"),
                                    ScalarSer("decimal"), ScalarSer("time")}}
    \cup {UnionSer(<<t, ScalarSer("str")>>) : t \in TupleSerializers}

SerializedValues ==
    {NoneV, IntV(1), StrV(<<"a">>), FloatV(150), BoolV(TRUE), DecimalV(150), TimeV(1, 2, 3),
     TupleV(<<>>), TupleV(<<IntV(1)>>), TupleV(<<StrV(<<"a">>)>>),
     TupleV(<<IntV(1), IntV(2)>>), TupleV(<<IntV(1), StrV(<<"a">>)>>)}

\* serializer.to_python(value, parameter) / serializer.serialize(value, parameter)
\* with a fresh SerParameter
SerializerCall ==
    /\ call = NoCall
    /\ \E ser \in ScalarSerializers \cup TupleSerializers \cup UnionSerializers,
          method \in {"python", "json"}, value \in SerializedValues,
          policy \in {"warn", "error"} :
          LET parameter == SerParameter(method, FALSE, policy)
          IN /\ call' = [op |-> "serializer", ser |-> ser, method |-> method,
                         value |-> value, parameter |-> parameter]
             /\ result' = [op |-> "serializer",
                           out |-> Serializer_call(ser, method, value, parameter)]
    /\ UNCHANGED NotPure

-----------------------------------------------------------------------------
(* Lazy validation of a generator (validator.py, GeneratorValidator and    *)
(* GeneratorIterator)                                                      *)

\* the items a source generator yields and the number of pulls followed
MaxSource == 3
MaxPulls == 4

SourceItems == {IntV(1), StrV(<<"4", "2">>), StrV(<<"x">>)}

Sources == UNION {[1..n -> SourceItems] : n \in 0..MaxSource}

\* the bounds a generator validator is built with (NoLen for None)
GeneratorBounds == {NoLen, 1, 2}


\* the outcome of one pull: the way it was made, the zero-based position in
\* the source of the item it consumed (-1 for none), and what came back
Pull(via, position, out) == [via |-> via, position |-> position, out |-> out]

StopIteration == RaisedPlain("StopIteration", "")

YInit ==
    generator = [built |-> FALSE, refused |-> FALSE, source |-> <<>>, consumed |-> 0,
                 index |-> 0, min_length |-> NoLen, max_length |-> NoLen, pulls |-> <<>>]

\* GeneratorIterator.__next__ of a wrapper in state g: the outcome, and the
\* wrapper's index and the number of source items consumed afterwards
GeneratorIterator_next(g) ==
    IF g.consumed = Len(g.source)
    THEN [out |-> StopIteration, index |-> g.index, consumed |-> g.consumed]
    ELSE LET value == g.source[g.consumed + 1]
             c == catch_validate_error(value, IntVal, <<LocIdx(g.index)>>, <<>>)
             lenErr == check_collection_length(g.index + 1, g.min_length, g.max_length)
             line_errors ==
                 IF lenErr = "" THEN c.errs
                 ELSE Append(c.errs, ErrorDetail(<<LocIdx(g.index)>>, c.ret, lenErr, ""))
         IN IF line_errors # <<>>
            THEN [out |-> RaisedValidationError(<<"GeneratorIterator">>, line_errors),
                  index |-> g.index, consumed |-> g.consumed + 1]
            ELSE [out |-> Returned(c.ret), index |-> g.index + 1,
                  consumed |-> g.consumed + 1]

\* next(iter(wrapper)): __iter__ returns self.iterable, the source generator
\* itself, so the loop draws from the source and the wrapper's index stays
GeneratorIterator_iter_next(g) ==
    IF g.consumed = Len(g.source)
    THEN [out |-> StopIteration, index |-> g.index, consumed |-> g.consumed]
    ELSE [out |-> Returned(g.source[g.consumed + 1]), index |-> g.index,
          consumed |-> g.consumed + 1]

\* GeneratorValidator(item_validator=int, min_length, max_length).validate(value)
GeneratorValidate ==
    /\ ~generator.built /\ ~generator.refused
    /\ \/ \E source \in Sources, min_length \in GeneratorBounds,
                max_length \in GeneratorBounds :
             generator' = [generator EXCEPT !.built = TRUE, !.source = source,
                                            !.min_length = min_length,
                                            !.max_length = max_length]
       \* a value that is not iterable: DataclassCustomError('iterable_type')
       \/ generator' = [generator EXCEPT !.refused = TRUE]
    /\ UNCHANGED NotGenerator

\* the consumer calls next(wrapper)
GeneratorNext ==
    /\ generator.built
    /\ Len(generator.pulls) < MaxPulls
    /\ LET r == GeneratorIterator_next(generator)
       IN generator' = [generator EXCEPT
                           !.index = r.index, !.consumed = r.consumed,
                           !.pulls = Append(@, Pull("next", generator.consumed, r.out))]
    /\ UNCHANGED NotGenerator

\* the consumer's `for item in wrapper` loop takes one more item
GeneratorLoop ==
    /\ generator.built
    /\ Len(generator.pulls) < MaxPulls
    /\ LET r == GeneratorIterator_iter_next(generator)
       IN generator' = [generator EXCEPT
                           !.index = r.index, !.consumed = r.consumed,
                           !.pulls = Append(@, Pull("loop", generator.consumed, r.out))]
    /\ UNCHANGED NotGenerator

YNext == GeneratorValidate \/ GeneratorNext \/ GeneratorLoop

-----------------------------------------------------------------------------
(* Pseudo-fields and mutable defaults (fast_dataclass.py, _generate_field; *)
(* field.py, Field.__init__)                                               *)

SetV == [t |-> "set", n |-> 0, s |-> <<>>, l |-> <<>>]

\* _BASE_FIELD, _FIELD_CLASS_VAR, _FIELD_INIT_VAR
BASE_FIELD == "_FIELD"
FIELD_CLASS_VAR == "_FIELD_CLASS_VAR"
FIELD_INIT_VAR == "_FIELD_INIT_VAR"

\* the annotations of a name: an ordinary type, typing.ClassVar bare and
\* subscripted, and InitVar (InitVar[int] is InitVar itself)
OrdinaryAnnotations == {"int", "str"}
FieldAnnotations == OrdinaryAnnotations \cup {"ClassVar", "ClassVar[int]", "InitVar"}

\* _is_class_var: ClassVar itself, or a types.GenericAlias whose origin is
\* ClassVar; ClassVar[int] is a typing._GenericAlias, which is neither
is_class_var(annotation) == annotation = "ClassVar"

\* _is_init_var
is_init_var(annotation) == annotation = "InitVar"

\* isinstance(field.default, (list, dict, set))
IsMutableDefault(default) == default.t \in {"list", "dict", "set"}

\* the outcome of declaring and compiling one annotated name: the exception
\* raised ("" for none), where, and the _field_type of the compiled Field
FieldOutcome(exc, at, field_type) == [exc |-> exc, at |-> at, field_type |-> field_type]

\* Field.__init__(default=..., default_factory=...) in the class body
Field_init(default, default_factory) ==
    IF default # NoneV /\ default_factory # "" THEN "ValueError" ELSE ""

\* _generate_field from `setattr(field, '_field_type', _BASE_FIELD)` on. The
\* assignment annotation._field_type = _FIELD_CLASS_VAR is refused by
\* typing.ClassVar, which has no such slot. The local field_type is read from
\* the annotation before the InitVar test and is not assigned again.
generate_field_type(annotation, default, default_factory) ==
    IF is_class_var(annotation) THEN FieldOutcome("AttributeError", "compile", BASE_FIELD)
    ELSE LET field_type == BASE_FIELD
             stored == IF is_init_var(annotation) THEN FIELD_INIT_VAR ELSE BASE_FIELD
         IN IF field_type \in {FIELD_CLASS_VAR, FIELD_INIT_VAR} /\ default_factory # ""
            THEN FieldOutcome("TypeError", "compile", stored)
            ELSE IF field_type = BASE_FIELD /\ IsMutableDefault(default)
            THEN FieldOutcome("ValueError", "compile", stored)
            ELSE FieldOutcome("", "", stored)

\* what the class body gives an annotated name: nothing, a plain value, or
\* field(default, default_factory=...)
FieldDefaults == {NoneV, IntV(5), ListV(<<>>), ListV(<<IntV(1)>>), DictV, SetV}

FieldDeclarations ==
    {[kind |-> "none", default |-> NoneV, default_factory |-> ""]}
    \cup {[kind |-> "value", default |-> d, default_factory |-> ""] : d \in FieldDefaults \ {NoneV}}
    \cup {[kind |-> "field", default |-> d, default_factory |-> f] :
             d \in FieldDefaults, f \in {"", "list", "dict"}}

\* the class body declares one annotated name and the type is compiled
DeclareField ==
    /\ call = NoCall
    /\ \E annotation \in FieldAnnotations, decl \in FieldDeclarations :
          /\ call' = [op |-> "declare", annotation |-> annotation, decl |-> decl]
          /\ result' =
                [op |-> "declare",
                 out |-> IF decl.kind = "field"
                            /\ Field_init(decl.default, decl.default_factory) # ""
                         THEN FieldOutcome(Field_init(decl.default, decl.default_factory),
                                           "declaration", BASE_FIELD)
                         ELSE generate_field_type(annotation, decl.default,
                                                  decl.default_factory)]
    /\ UNCHANGED NotPure

-----------------------------------------------------------------------------
(* Function-argument validator (validator.py, FunctionValidator)           *)

\* inspect.signature(function).parameters: each parameter's name, whether it
\* has a default, and its kind; the catch-all parameters are among them
Param(name, has_default, kind) == [name |-> name, has_default |-> has_default, kind |-> kind]

VarArgs == Param("args", FALSE, "VAR_POSITIONAL")
VarKwargs == Param("kwargs", FALSE, "VAR_KEYWORD")

\* def f(a), f(a, b), f(a, b=1), f(a=1, b=1), ... followed or not by *args
\* and **kwargs
PlainParameters ==
    {<<>>, <<Param("a", FALSE, "PLAIN")>>, <<Param("a", TRUE, "PLAIN")>>,
     <<Param("a", FALSE, "PLAIN"), Param("b", FALSE, "PLAIN")>>,
     <<Param("a", FALSE, "PLAIN"), Param("b", TRUE, "PLAIN")>>,
     <<Param("a", TRUE, "PLAIN"), Param("b", TRUE, "PLAIN")>>}

Signatures ==
    {plain \o star \o starstar :
        plain \in PlainParameters, star \in {<<>>, <<VarArgs>>},
        starstar \in {<<>>, <<VarKwargs>>}}

\* the call arguments: a list of values, a map from names to values (AbsentV
\* for a name that is not a key), or something that is neither
MaxArguments == 3

ArgumentValues == {IntV(1), NoneV}

Arguments(kind, items, byname) == [kind |-> kind, items |-> items, byname |-> byname]

NoNames == [nm \in {"a", "b", "args", "kwargs"} |-> AbsentV]

ArgumentInputs ==
    {Arguments("list", items, NoNames) :
        items \in UNION {[1..n -> ArgumentValues] : n \in 0..MaxArguments}}
    \cup {Arguments("dict", <<>>, [nm \in {"a", "b", "args", "kwargs"} |->
                                     IF nm \in {"a", "b"} THEN m[nm] ELSE AbsentV]) :
            m \in [{"a", "b"} -> ArgumentValues \cup {AbsentV}]}
    \cup {Arguments("other", <<>>, NoNames)}

\* the value an ErrorDetail of the validator carries as input_value
ArgumentsValue(value) == IF value.kind = "dict" THEN DictV ELSE ListV(value.items)

\* the loop of FunctionValidator.validate from the i-th parameter on
RECURSIVE FunctionParameters(_, _, _, _)
FunctionParameters(parameters, value, i, line_errors) ==
    IF i > Len(parameters) THEN line_errors
    ELSE LET parameter == parameters[i]
             missing(loc) == ErrorDetail(<<loc>>, ArgumentsValue(value), "missing",
                                         "field required")
         IN IF value.kind = "dict" /\ value.byname[parameter.name] = AbsentV
            \* KeyError
            THEN FunctionParameters(parameters, value, i + 1,
                                    Append(line_errors, missing(LocName(parameter.name))))
            ELSE IF value.kind = "list" /\ i > Len(value.items)
            \* IndexError
            THEN FunctionParameters(parameters, value, i + 1,
                                    Append(line_errors, missing(LocIdx(i - 1))))
            ELSE LET input_value == IF value.kind = "dict" THEN value.byname[parameter.name]
                                    ELSE value.items[i]
                 IN IF input_value = NoneV /\ ~parameter.has_default
                    THEN FunctionParameters(parameters, value, i + 1,
                                            Append(line_errors,
                                                   missing(LocName(parameter.name))))
                    ELSE FunctionParameters(parameters, value, i + 1, line_errors)

\* FunctionValidator(function).validate(value)
FunctionValidator_validate(parameters, value) ==
    IF value.kind = "other"
    THEN RaisedCustom("arguments_type", "arguments must be a tuple, list or dict")
    ELSE LET line_errors == FunctionParameters(parameters, value, 1, <<>>)
         IN IF line_errors # <<>> THEN RaisedValidationError(<<"function">>, line_errors)
            ELSE Returned(NoneV)

\* FunctionValidator.validate(value)
FunctionValidate ==
    /\ call = NoCall
    /\ \E parameters \in Signatures, value \in ArgumentInputs :
          /\ call' = [op |-> "function", parameters |-> parameters, value |-> value]
          /\ result' = [op |-> "function",
                        out |-> FunctionValidator_validate(parameters, value)]
    /\ UNCHANGED NotPure

-----------------------------------------------------------------------------
(* Keyword arguments of nested validators (utils.py, validator.py)         *)

\* a keyword-argument dict is the set of its (key, value) pairs; the entry
\* under 'sub_validator_kwargs' is kept apart as `sub`: absent, one dict, or
\* a list of dicts
MaxNested == 3
MaxBundles == 2

Bundles == {{<<"max_length", 1>>}, {<<"max_length", 2>>}}

ValidatorKwargs(own, present, form, bundles) ==
    [own |-> own, present |-> present, form |-> form, bundles |-> bundles]

\* del validator_kwargs['sub_validator_kwargs']
WithoutSub(validator_kwargs) == ValidatorKwargs(validator_kwargs.own, FALSE, "", <<>>)

KwargsInputs ==
    {ValidatorKwargs(own, FALSE, "", <<>>) : own \in {{}, {<<"min_length", 0>>}}}
    \cup {ValidatorKwargs(own, TRUE, "dict", <<b>>) :
            own \in {{}, {<<"min_length", 0>>}}, b \in Bundles}
    \cup {ValidatorKwargs(own, TRUE, "list", bs) :
            own \in {{}, {<<"min_length", 0>>}},
            bs \in UNION {[1..n -> Bundles] : n \in 1..MaxBundles}}

\* get_sub_validator_kwargs(validator_kwargs, index): the returned dict and
\* the caller's validator_kwargs afterwards
get_sub_validator_kwargs(validator_kwargs, index) ==
    IF ~validator_kwargs.present
    \* KeyError
    THEN [kwargs |-> {}, validator_kwargs |-> validator_kwargs, raised |-> ""]
    ELSE IF validator_kwargs.form = "dict"
    THEN [kwargs |-> validator_kwargs.bundles[1],
          validator_kwargs |-> WithoutSub(validator_kwargs), raised |-> ""]
    ELSE IF index + 1 > Len(validator_kwargs.bundles)
    THEN [kwargs |-> {}, validator_kwargs |-> validator_kwargs, raised |-> "IndexError"]
    ELSE [kwargs |-> validator_kwargs.bundles[index + 1],
          validator_kwargs |-> IF index = Len(validator_kwargs.bundles) - 1
                               THEN WithoutSub(validator_kwargs)
                               ELSE validator_kwargs,
          raised |-> ""]

\* the builders that pass the position of the nested validator, and those
\* that call get_sub_validator_kwargs(kwargs) with the default index 0
IndexedBuilders == {"tuple", "union"}
UnindexedBuilders == {"typed_dict"}

\* the nested validators of a build from the i-th (0-based) on: the kwargs
\* each is built with, and the kwargs handed to cls(...) at the end
RECURSIVE BuildNested(_, _, _, _, _)
BuildNested(builder, nested, i, kwargs, delivered) ==
    IF i >= nested THEN [delivered |-> delivered, kwargs |-> kwargs, raised |-> ""]
    ELSE LET got == get_sub_validator_kwargs(kwargs,
                        IF builder \in IndexedBuilders THEN i ELSE 0)
         IN IF got.raised # ""
            THEN [delivered |-> delivered, kwargs |-> kwargs, raised |-> got.raised]
            ELSE BuildNested(builder, nested, i + 1, got.validator_kwargs,
                             Append(delivered, got.kwargs))

\* TupleValidator.build, UnionValidator.build, TypedDictValidator.build
Validator_build(builder, nested, kwargs) == BuildNested(builder, nested, 0, kwargs, <<>>)

\* building a parent validator with `nested` nested annotations
BuildValidator ==
    /\ call = NoCall
    /\ \E builder \in IndexedBuilders \cup UnindexedBuilders, nested \in 0..MaxNested,
          kwargs \in KwargsInputs :
          /\ call' = [op |-> "build", builder |-> builder, nested |-> nested,
                      kwargs |-> kwargs]
          /\ result' = [op |-> "build", out |-> Validator_build(builder, nested, kwargs)]
    /\ UNCHANGED NotPure

-----------------------------------------------------------------------------
(* Duration validator (validator.py, TimedeltaValidator)                   *)

SecondsPerDay == 86400
MicrosPerSecond == 1000000

\* datetime.timedelta(...) brought to its normal form, from whole seconds and
\* microseconds in 0..999999
timedelta(seconds, microseconds) ==
    TimeDelta(seconds \div SecondsPerDay, seconds % SecondsPerDay, microseconds)

\* -delta
Negated(delta) ==
    LET seconds == delta.days * SecondsPerDay + delta.seconds
    IN IF delta.microseconds = 0 THEN timedelta(-seconds, 0)
       ELSE timedelta(-seconds - 1, MicrosPerSecond - delta.microseconds)

TdOk(delta) == [ok |-> TRUE, delta |-> delta, exc |-> ""]
TdErr(exc) == [ok |-> FALSE, delta |-> TimeDelta(0, 0, 0), exc |-> exc]

\* re.IGNORECASE on the letters the two patterns name
Lower(c) ==
    IF c = "D" THEN "d" ELSE IF c = "P" THEN "p" ELSE IF c = "T" THEN "t"
    ELSE IF c = "H" THEN "h" ELSE IF c = "M" THEN "m" ELSE IF c = "S" THEN "s" ELSE c

\* the length of the longest run of digits cs starts with
RECURSIVE DigitPrefix(_)
DigitPrefix(cs) ==
    IF cs # <<>> /\ IsDigit(Head(cs)) THEN 1 + DigitPrefix(Tail(cs)) ELSE 0

Drop(cs, n) == SubSeq(cs, n + 1, Len(cs))

StartsWith(cs, prefix) ==
    /\ Len(cs) >= Len(prefix)
    /\ \A i \in 1..Len(prefix) : Lower(cs[i]) = prefix[i]

\* (?:(\d+)suffix)? at the head of cs: the group's number, or `missing`
\* and nothing consumed
Group(cs, suffix) ==
    LET n == DigitPrefix(cs)
    IN IF n > 0 /\ StartsWith(Drop(cs, n), suffix)
       THEN [matched |-> TRUE, digits |-> SubSeq(cs, 1, n), rest |-> Drop(cs, n + Len(suffix))]
       ELSE [matched |-> FALSE, digits |-> <<>>, rest |-> cs]

\* an optional literal at the head of cs
Literal(cs, prefix) ==
    IF StartsWith(cs, prefix) THEN [matched |-> TRUE, rest |-> Drop(cs, Len(prefix))]
    ELSE [matched |-> FALSE, rest |-> cs]

\* int(group) if group else 0
GroupInt(g) == IF g.matched THEN DigitsVal(g.digits) ELSE 0

\* int(microseconds.ljust(6, '0'))
RECURSIVE LJust(_, _)
LJust(cs, n) == IF Len(cs) >= n THEN cs ELSE LJust(cs \o <<"0">>, n)

\* pattern_1: ^(-)?(?:(\d+)d,)?(?:(\d+)d)?(\d+):(\d+):(\d+)(?:\.(\d+))?$
match_1(value) ==
    LET sign == Literal(value, <<"-">>)
        days_1 == Group(sign.rest, <<"d", ",">>)
        days_2 == Group(days_1.rest, <<"d">>)
        hours == Group(days_2.rest, <<":">>)
        minutes == Group(hours.rest, <<":">>)
        n == DigitPrefix(minutes.rest)
        seconds == SubSeq(minutes.rest, 1, n)
        tail == Drop(minutes.rest, n)
        fraction == IF tail # <<>> /\ Head(tail) = "." THEN Tail(tail) ELSE <<>>
    IN [matched |-> /\ hours.matched /\ minutes.matched /\ n > 0
                    /\ (tail = <<>> \/ (Head(tail) = "." /\ AllDigits(fraction))),
        sign |-> sign.matched,
        days |-> IF days_1.matched THEN GroupInt(days_1) ELSE GroupInt(days_2),
        hours |-> GroupInt(hours), minutes |-> GroupInt(minutes),
        seconds |-> DigitsVal(seconds),
        microseconds |-> IF fraction # <<>> THEN DigitsVal(LJust(fraction, 6)) ELSE 0]

\* pattern_2: ^([+-])?P?(?:(\d+)D)?(?:T(?:(\d+)H)?(?:(\d+)M)?(?:(\d+)S)?)?$
match_2(value) ==
    LET minus == Literal(value, <<"-">>)
        plus == Literal(minus.rest, IF minus.matched THEN <<>> ELSE <<"+">>)
        p == Literal(plus.rest, <<"p">>)
        days == Group(p.rest, <<"d">>)
        t == Literal(days.rest, <<"t">>)
        hours == IF t.matched THEN Group(t.rest, <<"h">>) ELSE Group(<<>>, <<"h">>)
        minutes == IF t.matched THEN Group(hours.rest, <<"m">>) ELSE Group(<<>>, <<"m">>)
        seconds == IF t.matched THEN Group(minutes.rest, <<"s">>) ELSE Group(<<>>, <<"s">>)
    IN [matched |-> IF t.matched THEN seconds.rest = <<>> ELSE days.rest = <<>>,
        sign |-> minus.matched,
        days |-> GroupInt(days), hours |-> GroupInt(hours),
        minutes |-> GroupInt(minutes), seconds |-> GroupInt(seconds)]

\* TimedeltaValidator.str_to_timedelta
str_to_timedelta(value) ==
    LET m1 == match_1(value)
        m2 == match_2(value)
        delta_1 == timedelta(m1.days * SecondsPerDay + m1.hours * 3600 + m1.minutes * 60
                             + m1.seconds + m1.microseconds \div MicrosPerSecond,
                             m1.microseconds % MicrosPerSecond)
        delta_2 == timedelta(m2.days * SecondsPerDay + m2.hours * 3600 + m2.minutes * 60
                             + m2.seconds, 0)
    IN IF m1.matched THEN TdOk(IF m1.sign THEN Negated(delta_1) ELSE delta_1)
       ELSE IF m2.matched THEN TdOk(IF m2.sign THEN Negated(delta_2) ELSE delta_2)
       ELSE TdErr("ValueError")

\* TimedeltaValidator.validate on a str
TimedeltaValidator_validate(value) ==
    IF value = <<>> THEN TdErr("ValueError") ELSE str_to_timedelta(value)

\* texts that are no serializer output
DurationTexts ==
    {<<>>, <<"x">>, <<"P">>, <<"+", "P", "1", "D">>, <<"1", "d", "2", ":", "0", "3", ":", "0", "4">>,
     <<"-", "0", ":", "0", "0", ":", "0", "1", ".", "5">>, <<"P", "T", "9", "0", "S">>,
     <<"1", "d", ",", "0", ":", "0", ":", "0">>, <<"p", "1", "d", "t", "2", "h">>,
     <<"1", ":", "2">>, <<"P", "1", "D", "T", "x">>}

\* the wire-safe serialization of a duration, validated
TimeDeltaRoundTrip ==
    /\ call = NoCall
    /\ \E value \in TimeDeltas :
          /\ call' = [op |-> "timedelta_round_trip", value |-> value]
          /\ result' = [op |-> "timedelta_round_trip", text |-> uncheck_serialize(value),
                        out |-> TimedeltaValidator_validate(uncheck_serialize(value))]
    /\ UNCHANGED NotPure

\* TimedeltaValidator.validate(value) on a str
TimedeltaValidate ==
    /\ call = NoCall
    /\ \E value \in DurationTexts :
          /\ call' = [op |-> "timedelta_validate", value |-> value]
          /\ result' = [op |-> "timedelta_validate", text |-> value,
                        out |-> TimedeltaValidator_validate(value)]
    /\ UNCHANGED NotPure

TDNext == TimeDeltaSerialize \/ TimeDeltaRoundTrip \/ TimedeltaValidate

-----------------------------------------------------------------------------
(* Specifications                                                          *)

Init == DInit /\ SInit /\ PInit /\ CInit /\ RInit /\ GInit /\ XInit /\ YInit

SpecCompile == Init /\ [][CNext]_vars

SpecValidate == Init /\ [][VNext]_vars

SpecDatetime == Init /\ [][TNext]_vars

SpecTimeDelta == Init /\ [][TDNext]_vars

SpecDeserialize == Init /\ [][DNext]_vars

SpecSerialize == Init /\ [][SNext]_vars

SpecSerializer == Init /\ [][SerializerCall]_vars

SpecGenerator == Init /\ [][YNext]_vars

SpecField == Init /\ [][DeclareField]_vars

SpecFunction == Init /\ [][FunctionValidate]_vars

SpecBuild == Init /\ [][BuildValidator]_vars

SpecScalar == Init /\ [][ScalarNext]_vars

SpecRepr == Init /\ [][RNext]_vars

SpecGlobal == Init /\ [][GNext]_vars

SpecString == Init /\ [][XNext]_vars

-----------------------------------------------------------------------------
(* Claims on record deserialization                                        *)

DeserializeOver == dpc \in {"raised", "returned"}

\* a field fails when it is required and has no value, or when its value is
\* rejected by the field's validator
FieldFailed(field, inp) ==
    LET v == ResolvedValue(field, inp)
    IN IF v = NoneV THEN field.required ELSE ~Validate(field.validator, v).ok

FailedNames(tbl, inp) == {tbl[i].name : i \in {j \in 1..Len(tbl) : FieldFailed(tbl[j], inp)}}

TablePos(tbl, nm) == CHOOSE i \in 1..Len(tbl) : tbl[i].name = nm

\* the entries name exactly the failing fields, each under its own field name,
\* grouped in the order of the field table
GroupedByField(line_errors, tbl, inp) ==
    /\ \A i \in 1..Len(line_errors) : line_errors[i].loc # <<>>
    /\ {line_errors[i].loc[1].name : i \in 1..Len(line_errors)} = FailedNames(tbl, inp)
    /\ \A i, j \in 1..Len(line_errors) :
          i < j => TablePos(tbl, line_errors[i].loc[1].name)
                     <= TablePos(tbl, line_errors[j].loc[1].name)

AllFieldsAttempted == attempted = TableNames(fields)

RaisedAggregate ==
    /\ dpc = "raised"
    /\ raisedErr.exc = "ValidationError"
    /\ raisedErr.title = dataclass.name
    /\ GroupedByField(raisedErr.line_errors, fields, input)

\* C1 as stated: every field is attempted in table order; one aggregated
\* ValidationError titled with the record name and holding the failures of
\* all failing fields in declaration order is raised if and only if at least
\* one field failed.
C1_RaisesIffAnyFieldFailed ==
    /\ dpc = "loop" => attempted = SubSeq(TableNames(fields), 1, idx - 1)
    /\ DeserializeOver =>
         /\ AllFieldsAttempted
         /\ FailedNames(fields, input) # {} => RaisedAggregate
         /\ FailedNames(fields, input) = {} => dpc = "returned"

\* C1 amended: the aggregated ValidationError is raised if and only if at
\* least one field failed and the errors policy of the call is not `ignore`;
\* under `ignore` the failures are recorded but nothing is raised.
C1_RaisesIffFailedAndNotIgnored ==
    /\ dpc = "loop" => attempted = SubSeq(TableNames(fields), 1, idx - 1)
    /\ DeserializeOver =>
         /\ AllFieldsAttempted
         /\ GroupedByField(errs, fields, input)
         /\ (FailedNames(fields, input) # {} /\ errors # "ignore") => RaisedAggregate
         /\ (FailedNames(fields, input) = {} \/ errors = "ignore") => dpc = "returned"

\* a construction whose first and second field both failed has raised
C1_Witness ==
    /\ dpc = "raised"
    /\ Len(fields) >= 2
    /\ {fields[1].name, fields[2].name} \subseteq FailedNames(fields, input)
    /\ Len(raisedErr.line_errors) >= 3

IsMissingEntry(e, nm) == e.exception_type = "missing" /\ e.loc = <<LocName(nm)>>

HasMissingEntry(es, nm) == \E i \in 1..Len(es) : IsMissingEntry(es[i], nm)

RequiredAndAbsent(field, inp) == field.required /\ ResolvedValue(field, inp) = NoneV

MissingNames(tbl, inp) ==
    {tbl[i].name : i \in {j \in 1..Len(tbl) : RequiredAndAbsent(tbl[j], inp)}}

MissingIffRequiredAndAbsent ==
    \A i \in 1..Len(fields) :
        i < idx => (HasMissingEntry(errs, fields[i].name) <=> RequiredAndAbsent(fields[i], input))

DefaultNeverMissing ==
    \A i \in 1..Len(fields) :
        (i < idx /\ fields[i].default # NoneV /\ input[fields[i].name] = AbsentV)
            => ~HasMissingEntry(errs, fields[i].name)

OnlyMissingFailures == FailedNames(fields, input) = MissingNames(fields, input)

\* C2 as stated: a field yields `missing` at [name] iff it is required and its
\* resolved value is absent; k >= 1 such fields and no other failure raise
\* one ValidationError of exactly k entries; a field with a default never
\* yields `missing` when its key is not supplied.
C2_MissingRaisesCountK ==
    /\ MissingIffRequiredAndAbsent
    /\ DefaultNeverMissing
    /\ (DeserializeOver /\ OnlyMissingFailures /\ MissingNames(fields, input) # {}) =>
          /\ dpc = "raised"
          /\ raisedErr.exc = "ValidationError"
          /\ Len(raisedErr.line_errors) = Cardinality(MissingNames(fields, input))

\* C2 amended: as stated, except that the ValidationError of exactly k entries
\* is raised only when the errors policy of the call is not `ignore`.
C2_MissingRaisesCountKUnlessIgnored ==
    /\ MissingIffRequiredAndAbsent
    /\ DefaultNeverMissing
    /\ (DeserializeOver /\ OnlyMissingFailures /\ MissingNames(fields, input) # {}) =>
          /\ Len(errs) = Cardinality(MissingNames(fields, input))
          /\ errors # "ignore" =>
                /\ dpc = "raised"
                /\ raisedErr.exc = "ValidationError"
                /\ raisedErr.line_errors = errs
          /\ errors = "ignore" => dpc = "returned"

\* two required, unsupplied fields: one ValidationError with two entries
C2_Witness ==
    /\ dpc = "raised"
    /\ Cardinality(MissingNames(fields, input)) = 2
    /\ OnlyMissingFailures
    /\ Len(raisedErr.line_errors) = 2

CountOf(q, x) == Cardinality({i \in 1..Len(q) : q[i] = x})

\* a construction without field errors by a record type that overrides the hook
C3_Witness ==
    /\ dpc = "returned"
    /\ errs = <<>>
    /\ BASE_HOOK_NAME \in dataclass.methods
    /\ Len(fields) >= 2

\* C3: when no field error was recorded, the hook a record author overrides
\* on the record type (__post_init__) has been invoked exactly once by the
\* time the instance is returned, after the last field was assigned; when the
\* construction raised, no hook was invoked.
C3_AuthorHookInvokedOnce ==
    /\ (dpc = "returned" /\ errs = <<>> /\ BASE_HOOK_NAME \in dataclass.methods) =>
          CountOf(hookCalls, BASE_HOOK_NAME) = 1
    /\ hookCalls # <<>> => AllFieldsAttempted
    /\ dpc = "raised" => hookCalls = <<>>

-----------------------------------------------------------------------------
(* Claims on record serialization                                          *)

SerializeOver == spc \in {"returned", "raised", "value_error"}

\* field i holds a value its declared serializer does not expect
Mismatched(i) ==
    /\ ser_fields[i].serializer # "any"
    /\ DictGet(dict_value, ser_fields[i].name) # NoneV
    /\ DictGet(dict_value, ser_fields[i].name).t # ser_fields[i].serializer

MismatchCount == Cardinality({i \in 1..Len(ser_fields) : Mismatched(i)})

\* a field declared as text whose attribute is an integer
TextHoldingInt(i) ==
    /\ ser_fields[i].serializer = "str"
    /\ dict_value[ser_fields[i].name].t = "int"

DiagnosticsOnlyAtEnd ==
    (warnings # <<>> \/ ser_raised # <<>> \/ spc \in {"raised", "value_error"})
        => ser_idx > Len(ser_fields)

PolicyDecides ==
    SerializeOver =>
        /\ spc # "value_error"
        /\ ser_idx = Len(ser_fields) + 1
        /\ (ser_parameter.errors = "error" /\ MismatchCount > 0) =>
                (spc = "raised" /\ Len(ser_raised) = MismatchCount /\ warnings = <<>>)
        /\ (ser_parameter.errors = "warn" /\ MismatchCount > 0) =>
                (spc = "returned" /\ Len(warnings) = 1
                    /\ Len(warnings[1]) = MismatchCount /\ ser_raised = <<>>)
        /\ (ser_parameter.errors = "ignore" \/ MismatchCount = 0) =>
                (spc = "returned" /\ warnings = <<>> /\ ser_raised = <<>>)

RawIntegerReturned ==
    spc = "returned" =>
        \A i \in 1..Len(ser_fields) :
            TextHoldingInt(i) => out_dict[ser_fields[i].name] = dict_value[ser_fields[i].name]

-----------------------------------------------------------------------------
(* Claims on record type compilation                                       *)

TableNamesOf(tbl) == [i \in 1..Len(tbl) |-> tbl[i].name]

\* the names the type declares that no ancestor declares, in source order
NewlyDeclared ==
    SelectSeq(cls.annotations, LAMBDA nm : nm \notin Range(TableNamesOf(cls.base_fields)))

CompiledFromAncestor ==
    /\ cpc \in {"compiled", "raised"}
    /\ cls.base_fields # <<>>
    /\ ~cls.stray_field
    /\ ~(dataclass_config.order /\ ~dataclass_config.eq)

\* C5: a record type compiled from an ancestor record type gets a field table
\* that lists the inherited fields first, in the ancestor's order, and the
\* newly declared fields after them in source order; a re-declared field keeps
\* its ancestor position and carries the derived declaration's default and
\* annotation.
C5_InheritedFirstRedeclaredInPlace ==
    CompiledFromAncestor =>
        /\ cpc = "compiled"
        /\ TableNamesOf(dataclass_fields) = TableNamesOf(cls.base_fields) \o NewlyDeclared
        /\ \A i \in 1..Len(dataclass_fields) :
              dataclass_fields[i].name \in Range(cls.annotations) =>
                  dataclass_fields[i].annotation = cls.annotation

-----------------------------------------------------------------------------
(* Claims on the collection and union validators                           *)

\* the call reached the item loop: the value is a collection and the
\* validator's optional length bounds admit its length
ItemsExamined ==
    /\ IsCollection(call.value)
    /\ check_collection_length(Len(call.value.l), call.val.min_length, call.val.max_length) = ""

\* 1-based positions of `items` the validator `item_val` rejects
FailingItems(item_val, items) ==
    {i \in 1..Len(items) : ~Validate(item_val, items[i]).ok}

\* the 0-based item indexes the entries of an aggregated error start with
LeadingIndexes(line_errors) == {line_errors[j].loc[1].idx : j \in 1..Len(line_errors)}

IndexesAscend(line_errors) ==
    \A j \in 1..(Len(line_errors) - 1) :
        line_errors[j].loc[1].idx <= line_errors[j + 1].loc[1].idx

IsMissingAt(e, i) == e.loc = <<LocIdx(i)>> /\ e.exception_type = "missing"

FixedTupleOutcome ==
    LET val == call.val
        items == call.value.l
        n == Len(val.subs)
        L == Len(items)
        out == result.out
        failing == {i \in 1..n : i > L \/ ~Validate(val.subs[i], items[i]).ok}
    IN IF L > n
       THEN ~out.ok /\ out.exc = "DataclassCustomError" /\ out.exception_type = "too_long"
       ELSE IF failing = {}
       THEN /\ out.ok
            /\ out.v.t = "tuple"
            /\ Len(out.v.l) = n
            /\ \A i \in 1..n : out.v.l[i] = Validate(val.subs[i], items[i]).v
       ELSE /\ ~out.ok
            /\ out.exc = "ValidationError"
            /\ LeadingIndexes(out.line_errors) = {i - 1 : i \in failing}
            /\ IndexesAscend(out.line_errors)
            /\ \A i \in 1..n :
                  (i > L) <=> (\E j \in 1..Len(out.line_errors) :
                                   IsMissingAt(out.line_errors[j], i - 1))

VariadicTupleOutcome ==
    LET val == call.val
        items == call.value.l
        out == result.out
        failing == FailingItems(val.subs[1], items)
    IN IF failing = {}
       THEN /\ out.ok
            /\ out.v.t = "tuple"
            /\ Len(out.v.l) = Len(items)
            /\ \A i \in 1..Len(items) : out.v.l[i] = Validate(val.subs[1], items[i]).v
       ELSE /\ ~out.ok
            /\ out.exc = "ValidationError"
            /\ LeadingIndexes(out.line_errors) = {i - 1 : i \in failing}

\* C6: a fixed-arity tuple validator with n positions, given a list or tuple
\* of length L that its length bounds admit, fails with `too_long` when L > n;
\* otherwise it validates position i < L with the i-th validator, reports
\* every position i >= L as `missing` at [i], reports all failing positions in
\* one ValidationError, and on success returns a tuple of exactly n coerced
\* values; a variadic tuple validator applies its item validator to every
\* element and returns a tuple of the same length.
C6_TupleArityAndAggregation ==
    (call.op = "tuple" /\ ItemsExamined) =>
        IF call.val.variadic THEN VariadicTupleOutcome ELSE FixedTupleOutcome

\* a fixed (text, integer) tuple fed one item: position 1 is reported missing
C6_Witness ==
    /\ call.op = "tuple"
    /\ ItemsExamined
    /\ ~call.val.variadic
    /\ Len(call.val.subs) = 2
    /\ call.val.subs[2] = IntVal
    /\ call.value = ListV(<<NoneV>>)
    /\ Len(result.out.line_errors) = 2
    /\ IsMissingAt(result.out.line_errors[2], 1)

\* the kind and message catch_validate_error records for a failed member; an
\* aggregated ValidationError stands for its last entry
FailureKind(out) ==
    IF out.exc = "ValidationError" THEN out.line_errors[Len(out.line_errors)].exception_type
    ELSE IF out.exc = "DataclassCustomError" THEN out.exception_type
    ELSE IF out.exc \in {"ValueError", "TypeError"} THEN FormatExceptionClass
    ELSE "exception_error"

FailureMsg(out) ==
    IF out.exc = "ValidationError" THEN out.line_errors[Len(out.line_errors)].msg
    ELSE out.msg

\* C7: a union validator tries its members in declared order and returns the
\* result of the first member that succeeds; whenever a member fails, also
\* with an aggregated ValidationError, the next member is tried; only when
\* every member fails does the union fail, with the kind and message of the
\* last member's error.
C7_UnionFirstSuccessLastError ==
    call.op = "union" =>
        LET vals == call.val.subs
            outs == [i \in 1..Len(vals) |-> Validate(vals[i], call.value)]
            succeeding == {i \in 1..Len(vals) : outs[i].ok}
            first == CHOOSE i \in succeeding : \A j \in succeeding : i <= j
        IN IF succeeding # {}
           THEN result.out = Returned(outs[first].v)
           ELSE /\ ~result.out.ok
                /\ result.out.exc = "DataclassCustomError"
                /\ result.out.exception_type = FailureKind(outs[Len(vals)])
                /\ result.out.msg = FailureMsg(outs[Len(vals)])

\* the same, for unions none of whose members raises an aggregated error
C7_UnionOfScalarFailures ==
    (call.op = "union"
        /\ \A i \in 1..Len(call.val.subs) :
              Validate(call.val.subs[i], call.value).exc # "ValidationError")
    => C7_UnionFirstSuccessLastError

\* the entries a list validator reports for `items`, each led by its index
RECURSIVE ExpectedItemLocs(_, _, _)
ExpectedItemLocs(item_val, items, i) ==
    IF i > Len(items) THEN <<>>
    ELSE LET out == Validate(item_val, items[i])
             here == IF out.ok THEN <<>>
                     ELSE IF out.exc = "ValidationError"
                          THEN [j \in 1..Len(out.line_errors) |->
                                    <<LocIdx(i - 1)>> \o out.line_errors[j].loc]
                     ELSE << <<LocIdx(i - 1)>> >>
         IN here \o ExpectedItemLocs(item_val, items, i + 1)

LocsOf(line_errors) == [j \in 1..Len(line_errors) |-> line_errors[j].loc]

ListOutcome ==
    LET item_val == call.val.subs[1]
        items == call.value.l
        out == result.out
        failing == FailingItems(item_val, items)
    IN IF failing = {}
       THEN /\ out.ok
            /\ out.v.t = "list"
            /\ Len(out.v.l) = Len(items)
            /\ \A i \in 1..Len(items) : out.v.l[i] = Validate(item_val, items[i]).v
       ELSE /\ ~out.ok
            /\ out.exc = "ValidationError"
            /\ LocsOf(out.line_errors) = ExpectedItemLocs(item_val, items, 1)
            /\ LeadingIndexes(out.line_errors) = {i - 1 : i \in failing}
            /\ (item_val.k \in {"str", "int"} => Len(out.line_errors) = Cardinality(failing))

ListFieldOutcome ==
    LET expected == ExpectedItemLocs(call.val.subs[1], call.value.l, 1)
    IN LocsOf(result.errs) =
          [j \in 1..Len(expected) |-> <<LocName(call.field_name)>> \o expected[j]]

\* C8: a list validator whose item validator is not the any validator, given
\* a collection its length bounds admit, returns a list of the same length and
\* order with every item independently coerced; when k items fail it raises
\* one ValidationError with the failures of all k items, each located at its
\* item index; when the list is the value of record field f, or item i of an
\* enclosing list, each location is prefixed by f, or i, outermost first.
C8_ListItemsAggregatedAndLocated ==
    /\ (call.op = "list" /\ ItemsExamined /\ call.val.subs[1].k # "any") => ListOutcome
    /\ (call.op = "field" /\ ItemsExamined /\ call.val.subs[1].k # "any") => ListFieldOutcome

\* a list of lists whose second inner list has a bad second item: [1, 1]
C8_Witness ==
    /\ call.op = "list"
    /\ call.val.subs[1] = ListVal(IntVal)
    /\ call.value = ListV(<<ListV(<<IntV(3)>>), ListV(<<IntV(3), StrV(<<"a">>)>>)>>)
    /\ LocsOf(result.out.line_errors) = << <<LocIdx(1), LocIdx(1)>> >>

\* a record field holding a list of integers with failing items 0 and 2
C8_WitnessField ==
    /\ call.op = "field"
    /\ call.val.subs[1] = IntVal
    /\ LocsOf(result.errs) = << <<LocName(call.field_name), LocIdx(0)>>,
                                <<LocName(call.field_name), LocIdx(2)>> >>

-----------------------------------------------------------------------------
(* Claims on the date-time validator                                       *)

\* the text the tiers look at, its integral value, and the tier it falls in
DtText == call.value
DtLength == Len(DtText)
IntegerParseable == FloatParses(DtText)
NonZeroInteger == IntegerParseable /\ ~IsZero(IntOfFloat(DtText))
ZeroInteger == IntegerParseable /\ IsZero(IntOfFloat(DtText))

TooShort == DtLength < 4
YearTier == ~TooShort /\ NonZeroInteger /\ LessThan(IntOfFloat(DtText), MAXYEAR)
IntegerTier(lengths) == DtLength \in lengths /\ NonZeroInteger /\ ~YearTier
TextTier(lengths) == DtLength \in lengths /\ ~IntegerParseable
MillisecondLengths == {13} \cup 14..18
NoTier ==
    /\ ~TooShort /\ ~YearTier /\ ~IntegerTier({8, 10} \cup MillisecondLengths)
    /\ ~TextTier({10, 16}) /\ ~(DtLength >= 19 /\ ~IntegerParseable)

FailsWith(exception_type) ==
    /\ ~result.out.ok
    /\ result.out.exc = "DataclassCustomError"
    /\ result.out.exception_type = exception_type

Yields(dt) == result.out.ok /\ result.out.dt = dt

\* the civil date-time a laid-out text spells, if it spells one
SpelledDateTime(y, mo, d, h, mi, sec) ==
    IF /\ y \in 1..MAXYEAR /\ mo \in 1..12 /\ d \in 1..DaysInMonth(y, mo)
       /\ h < 24 /\ mi < 60 /\ sec < 60
    THEN Yields(Civil(y, mo, d, h, mi, sec, 0))
    ELSE ~result.out.ok

SeparatedDate(delimiter, before_clock, with_minutes, with_seconds) ==
    IF /\ DateLaidOut(DtText, delimiter)
       /\ with_minutes => (DtText[11] \in before_clock /\ TwoDigits(HourOf(DtText))
                             /\ DtText[14] = ":" /\ TwoDigits(MinuteOf(DtText)))
       /\ with_seconds => (DtText[17] = ":" /\ TwoDigits(SecondOf(DtText)))
    THEN SpelledDateTime(DigitsVal(YearOf(DtText)), DigitsVal(MonthOf(DtText)),
                         DigitsVal(DayOf(DtText)),
                         IF with_minutes THEN DigitsVal(HourOf(DtText)) ELSE 0,
                         IF with_minutes THEN DigitsVal(MinuteOf(DtText)) ELSE 0,
                         IF with_seconds THEN DigitsVal(SecondOf(DtText)) ELSE 0)
    ELSE ~result.out.ok

\* an instant of `ms` milliseconds, or a failure beyond year 9999
InstantOf(ms) ==
    IF DigitsLeq(ms, MaxTimestampMs) THEN Yields(Instant(ms))
    ELSE FailsWith("datetime_parsing")

\* the tiers the original and the amended statement agree on
CommonTiers ==
    /\ TooShort => FailsWith("datetime_parsing")
    /\ YearTier =>
          IF IntOfFloat(DtText).neg THEN ~result.out.ok
          ELSE Yields(Civil(DigitsVal(IntOfFloat(DtText).digits), 1, 1, 0, 0, 0, 0))
    /\ IntegerTier({8}) =>
          IF AllDigits(DtText)
          THEN SpelledDateTime(DigitsVal(SubSeq(DtText, 1, 4)), DigitsVal(SubSeq(DtText, 5, 6)),
                               DigitsVal(SubSeq(DtText, 7, 8)), 0, 0, 0)
          ELSE ~result.out.ok
    /\ IntegerTier({10}) => InstantOf(IntOfFloat(DtText).digits \o Thousand)
    /\ TextTier({10}) => SeparatedDate(get_delimiter(DtText), {}, FALSE, FALSE)
    /\ TextTier({16}) => SeparatedDate(get_delimiter(DtText), {" "}, TRUE, FALSE)
    /\ (TextTier({19}) /\ "T" \notin Range(DtText))
          => SeparatedDate(get_delimiter(DtText), {" "}, TRUE, TRUE)
    /\ (DtLength >= 19 /\ ~IntegerParseable /\ ~(DtLength = 19 /\ "T" \notin Range(DtText)))
          => IF DtLength = 19 THEN SeparatedDate("-", {" ", "T"}, TRUE, TRUE) ELSE ~result.out.ok
    /\ (NoTier /\ ~ZeroInteger) => FailsWith("datetime_parsing")

-----------------------------------------------------------------------------
(* Claims on the duration serializer                                       *)

\* the text between two marks of the P-form, "" when the second mark is absent
Between(text, from, to) ==
    IF to \notin Range(text) THEN <<>>
    ELSE LET j == CHOOSE k \in 1..Len(text) : text[k] = to
             i == CHOOSE k \in 0..(j - 1) :
                    /\ (k = 0 \/ text[k] \in from)
                    /\ \A m \in (k + 1)..(j - 1) : IsDigit(text[m])
         IN SubSeq(text, i + 1, j - 1)

\* the number a component of the P-form carries, 0 when the component is absent
Component(text, mark) ==
    LET digits == Between(text, {"T", "H", "M"}, mark)
    IN IF digits = <<>> THEN 0 ELSE DigitsVal(digits)

PassedThrough ==
    result.text = TimeDeltaStr(call.value)

PForm ==
    LET text == result.text
        value == call.value
        body == IF Head(text) = "-" THEN Tail(text) ELSE text
    IN /\ (Head(text) = "-") <=> (value.days < 0)
       /\ Head(body) = "P"
       /\ "D" \in Range(body) /\ "T" \in Range(body)
       /\ SubSeq(body, 2, (CHOOSE k \in 1..Len(body) : body[k] = "D") - 1)
             = NatToStr(Abs(value.days))
       /\ ("H" \in Range(body)) <=> (value.seconds \div 3600 > 0)
       /\ ("M" \in Range(body)) <=> ((value.seconds \div 60) % 60 > 0)
       /\ ("S" \in Range(body)) <=> (value.seconds % 60 > 0)
       /\ Component(body, "H") * 3600 + Component(body, "M") * 60 + Component(body, "S")
             = value.seconds
       /\ \A k \in 1..Len(body) : IsDigit(body[k]) \/ body[k] \in {"P", "D", "T", "H", "M", "S"}

\* C10: wire-safe serialization of a duration returns the value's default
\* string form when that form is 8 characters or fewer, and otherwise the text
\* [-]P{abs(days)}DT{H}H{M}M{S}S in which each of the hour, minute and second
\* components is present exactly when it is greater than zero and the leading
\* `-` exactly when the day count is negative; one hour gives "1:00:00" and
\* two days three hours gives "P2DT3H".
C10_TimedeltaWireForm ==
    call.op = "timedelta" =>
        /\ IF Len(TimeDeltaStr(call.value)) <= 8 THEN PassedThrough ELSE PForm
        /\ call.value = TimeDelta(0, 3600, 0) =>
              result.text = <<"1", ":", "0", "0", ":", "0", "0">>
        /\ call.value = TimeDelta(2, 10800, 0) =>
              result.text = <<"P", "2", "D", "T", "3", "H">>

\* ten hours: a default form of exactly 8 characters, passed through
C10_Witness ==
    /\ call.op = "timedelta"
    /\ call.value = TimeDelta(0, 36000, 0)
    /\ result.text = <<"1", "0", ":", "0", "0", ":", "0", "0">>

\* one day short of an hour ago: days -1, 23 hours
C10_WitnessNegative ==
    /\ call.op = "timedelta"
    /\ call.value = TimeDelta(-1, 82800, 0)
    /\ result.text = <<"-", "P", "1", "D", "T", "2", "3", "H">>


-----------------------------------------------------------------------------
(* Claims on the scalar validators                                         *)

IsMemberOf(value, enum_class) ==
    value.t = "int_enum" /\ value.s = <<enum_class.name>> /\ value.n \in enum_class.values

\* the input is an integer, or integer-looking text, equal to a member's value
NamesMember(value, enum_class) ==
    \/ value.t = "int" /\ value.n \in enum_class.values
    \/ value.t = "str" /\ IntParses(value.s) /\ IntParse(value.s) \in enum_class.values

\* the input corresponds to no member: an integer or text naming none, a
\* value that is no number at all, or a member of another enumeration
NamesNoMember(value, enum_class) ==
    \/ value.t = "int" /\ value.n \notin enum_class.values
    \/ value.t = "str" /\ ~(IntParses(value.s) /\ IntParse(value.s) \in enum_class.values)
    \/ value.t \in {"none", "list"}
    \/ value.t = "int_enum" /\ ~IsMemberOf(value, enum_class)

\* C11: an integer-enumeration validator bound to E returns the member of E
\* for an integer or integer-looking text equal to a member's value, fails
\* with int_enum_parsing for every input that corresponds to no member of E,
\* and so returns members of E only.
C11_IntEnumReturnsMembersOnly ==
    call.op = "int_enum" =>
        /\ NamesMember(call.value, call.enum_class) =>
              result.out = Returned(IntEnumV(call.enum_class.name, IntOf(call.value).n))
        /\ NamesNoMember(call.value, call.enum_class) =>
              (~result.out.ok /\ result.out.exc = "DataclassCustomError"
                 /\ result.out.exception_type = "int_enum_parsing")
        /\ result.out.ok => IsMemberOf(result.out.v, call.enum_class)

\* the same, for inputs that are not members of another enumeration
C11_ExceptForeignMembers ==
    (call.op = "int_enum" /\ (call.value.t = "int_enum" => IsMemberOf(call.value, call.enum_class)))
        => C11_IntEnumReturnsMembersOnly


-----------------------------------------------------------------------------
(* Claims on text rendering                                                *)

\* the rendering of obj in which an object that is already being rendered
\* appears as the ellipsis placeholder
RECURSIVE GuardedRender(_, _)
RECURSIVE GuardedRenderAll(_, _)
GuardedRenderAll(objs, running) ==
    IF objs = <<>> THEN <<>>
    ELSE GuardedRender(Head(objs), running) \o GuardedRenderAll(Tail(objs), running)
GuardedRender(obj, running) ==
    IF obj \in running THEN <<"...">>
    ELSE <<obj, "(">> \o GuardedRenderAll(heap.displays[obj], running \cup {obj}) \o <<")">>

\* obj displays itself, directly or through another object
RECURSIVE Reaches(_, _, _)
Reaches(from, to, steps) ==
    /\ steps > 0
    /\ \E k \in 1..Len(heap.displays[from]) :
          heap.displays[from][k] = to \/ Reaches(heap.displays[from][k], to, steps - 1)
RefersToItself(obj) == Reaches(obj, obj, Cardinality(Objects))

\* C12: rendering a record instance terminates even when the instance
\* refers to itself, directly or through another record: the call returns
\* a text in which the nested occurrence of an instance that is being
\* rendered is the ellipsis placeholder, and no frame recurses into it.
C12_SelfReferenceRendersEllipsis ==
    \A thread \in Threads :
        (~heap.guarded /\ rendered[thread].done) =>
            /\ rendered[thread].exc = ""
            /\ rendered[thread].text = GuardedRender(rendered[thread].obj, {})

\* C13: the guard's marker is keyed by (object, thread): every top-level
\* rendering a thread starts is performed in full, whatever the other thread
\* is rendering at the time, and a thread's own nested re-entry on an object
\* yields the placeholder; the markers present are those of the frames that
\* are inside the wrapped function.
C13_GuardKeyedByObjectAndThread ==
    /\ \A thread \in Threads :
          (heap.guarded /\ rendered[thread].done) =>
              /\ rendered[thread].exc = ""
              /\ rendered[thread].text = GuardedRender(rendered[thread].obj, {})
              /\ rendered[thread].text # <<"...">>
    /\ heap.guarded =>
          repr_running = UNION {KeysHeld(thread) : thread \in Threads}

\* thread B has rendered the self-referential object "a" in full while thread
\* A is still inside its own rendering of "a"
C13_Witness ==
    /\ heap.guarded
    /\ RefersToItself("a")
    /\ stacks["A"] # <<>>
    /\ stacks["A"][1].obj = "a"
    /\ GuardKey("a", "A") \in repr_running
    /\ rendered["B"].done
    /\ rendered["B"].obj = "a"
    /\ rendered["B"].text = GuardedRender("a", {})
    /\ \E k \in 1..Len(rendered["B"].text) : rendered["B"].text[k] = "..."


-----------------------------------------------------------------------------
(* Claims on the mapping validator                                         *)

\* the entries of the validated mapping whose key or value fails its validator
FailingEntries ==
    {k \in 1..Len(call.value.l) :
        \/ ~Validate(call.val.subs[1], KeyOf(call.value.l[k])).ok
        \/ ~Validate(call.val.subs[2], ValueOf(call.value.l[k])).ok}

\* a number-valued length bound turns the mapping away
LengthRefused ==
    /\ call.val.min_length # TypeLen
    /\ check_collection_length(Len(call.value.l), call.val.min_length, call.val.max_length) # ""

\* C14: a mapping validator whose key or value validator is not the any
\* validator validates every key and every value; when an entry fails it
\* raises one aggregated ValidationError naming each failing entry, and it
\* never returns a mapping that still holds a key or value that failed.
C14_MappingAggregatesFailures ==
    (/\ call.op = "dict"
     /\ call.value.t = "dict"
     /\ ~LengthRefused
     /\ ~(call.val.subs[1].k = "any" /\ call.val.subs[2].k = "any"))
    => IF FailingEntries # {}
       THEN /\ ~result.out.ok
            /\ result.out.exc = "ValidationError"
            /\ \A k \in FailingEntries :
                  \E e \in Range(result.out.line_errors) : e.loc[1] = LocIdx(k - 1)
       ELSE /\ result.out.ok
            /\ \A k \in 1..Len(result.out.v.l) :
                  /\ Validate(call.val.subs[1], KeyOf(result.out.v.l[k])).ok
                  /\ Validate(call.val.subs[2], ValueOf(result.out.v.l[k])).ok


-----------------------------------------------------------------------------
(* Claims on the required flag                                             *)

\* the entry of the compiled field table for the name nm
CompiledField(nm) == CHOOSE f \in Range(dataclass_fields) : f.name = nm

\* C15: after a record type is compiled, the required flag of each field it
\* declares equals the value declared for the field when one was given, and
\* the configuration's required flag only when the field left it unset.
C15_DeclaredRequiredWins ==
    cpc = "compiled" =>
        \A nm \in Range(cls.annotations) :
            CompiledField(nm).required =
                IF cls.declared[nm].required_set THEN cls.declared[nm].required
                ELSE dataclass_config.required


\* every configuration holds the flag it was given, or else the global
\* default of the moment it was constructed; every compiled field holds the
\* flag of its configuration
RequiredResolvedAtConstruction ==
    /\ \A k \in 1..Len(configs) :
          configs[k].required =
              IF configs[k].passed.set THEN configs[k].passed.v ELSE configs[k].default_then
    /\ \A k \in 1..Len(compiled_fields) :
          compiled_fields[k].required = configs[compiled_fields[k].config].required

SettingsChanged ==
    {nm \in DOMAIN global_setting : global_setting'[nm] # global_setting[nm]}

\* a step that changes a global setting changes that one setting only, and
\* no step changes a configuration or a compiled field that exists
SettersLeaveTheRestAlone ==
    /\ Cardinality(SettingsChanged) <= 1
    /\ SettingsChanged # {} => (configs' = configs /\ compiled_fields' = compiled_fields)
    /\ \A k \in 1..Len(configs) : Len(configs') >= k /\ configs'[k] = configs[k]
    /\ \A k \in 1..Len(compiled_fields) :
          Len(compiled_fields') >= k /\ compiled_fields'[k] = compiled_fields[k]

\* C16: a record configuration resolves an unset required flag from the
\* global default once, when it is constructed; later setter calls leave the
\* flag of constructed configurations and compiled fields unchanged, an
\* explicit flag is never overridden by the global default, and setting one
\* global setting leaves the other settings unchanged.
C16_RequiredResolvedOnce ==
    [](RequiredResolvedAtConstruction) /\ [][SettersLeaveTheRestAlone]_vars

\* the global default was changed after a configuration took it, and after a
\* field was compiled from that configuration
C16_Witness ==
    \E k \in 1..Len(compiled_fields) :
        /\ ~configs[compiled_fields[k].config].passed.set
        /\ compiled_fields[k].required # global_setting.DATACLASS_DEFAULT_REQUIRED
        /\ configs[compiled_fields[k].config].required
              # global_setting.DATACLASS_DEFAULT_REQUIRED

-----------------------------------------------------------------------------
(* Claims on the string validator                                          *)

\* C17: a call with a per-call override of the permissive flag affects that
\* call only: every call made without an override accepts or rejects numbers
\* and booleans according to the flag the validator was built with.
C17_OverrideAffectsOneCall ==
    (str_call.made /\ ~str_call.allow_number.set) =>
        str_call.out = StringValidator_validate(
                           [StrVal EXCEPT !.allow_number = str_validator.built_with],
                           str_call.value)


-----------------------------------------------------------------------------
(* C18: native strings, the empty one included                             *)

\* the fields of the record being read that are declared as text and were
\* supplied a native string, once the loop has gone past them
TextFieldsRead ==
    { i \in 1..Len(fields) :
         /\ i < idx
         /\ fields[i].validator = StrVal
         /\ IsStr(input[fields[i].name]) }

\* the validator returned the string it was given, the field was assigned it
\* and no failure names the field
ReadUnchanged(i) ==
    /\ StringValidator_validate(fields[i].validator, input[fields[i].name])
          = Returned(input[fields[i].name])
    /\ instance[fields[i].name] = input[fields[i].name]
    /\ \A k \in 1..Len(errs) : errs[k].loc # <<LocName(fields[i].name)>>

\* C18: the string validator returns every native string unchanged, the empty
\* string included, and a record field declared as text that is supplied an
\* empty string is read without a validation failure.
C18_NativeStringsUnchanged ==
    \A i \in TextFieldsRead : ReadUnchanged(i)

\* the same with the empty string set aside: every other native string is
\* returned and assigned unchanged
C18_ExceptEmptyString ==
    \A i \in TextFieldsRead :
        input[fields[i].name].s # <<>> => ReadUnchanged(i)


-----------------------------------------------------------------------------
(* C19: fractional numbers given to the integer validator                  *)

\* floor(v + 0.11) and the truncation of v, for v held in hundredths
FloorOfAdjusted(c) == (c + HalfAdjustHundredths) \div 100
TruncationOf(c) == TruncDiv(c, 100)

ToleranceRounded(c) ==
    IF FloorOfAdjusted(c) > TruncationOf(c) THEN FloorOfAdjusted(c) ELSE TruncationOf(c)

IntegerCallOn(kinds) == call.op = "int" /\ call.value.t \in kinds

\* C19: for every float or high-precision decimal v, positive, zero or
\* negative, the integer validator returns floor(v + 0.11) when that exceeds
\* the truncation of v and the truncation of v otherwise; the conversion
\* succeeds for floats and for decimals.
C19_ToleranceRounding ==
    IntegerCallOn({"float", "decimal"}) =>
        result.out = Returned(IntV(ToleranceRounded(call.value.n)))

\* the same for floats that are not negative
C19_NonNegativeFloats ==
    IntegerCallOn({"float"}) /\ call.value.n >= 0 =>
        result.out = Returned(IntV(ToleranceRounded(call.value.n)))


-----------------------------------------------------------------------------
(* C20: seconds since midnight                                             *)

SecondsCall ==
    /\ call.op = "time" /\ call.mode = "second"
    /\ call.value.t = "int" /\ call.value.n \in 0..86399

\* the time of day h:m:sec that h*3600 + m*60 + sec = s singles out
TimeOfDay(s) ==
    CHOOSE tod \in {TimeV(h, m, sec) : h \in 0..23, m \in {(s % 3600) \div 60}, sec \in {s % 60}} :
        tod.l[1].n * 3600 + tod.l[2].n * 60 + tod.l[3].n = s

\* C20: in the default (seconds) mode the time validator converts every
\* integer s with 0 <= s < 86400 to the time of day h:m:sec with
\* h*3600 + m*60 + sec = s, m < 60 and sec < 60, without failing.
C20_SecondsSinceMidnight ==
    SecondsCall => result.out = Returned(TimeOfDay(call.value.n))

\* the same for the first hour of the day
C20_FirstHourOnly ==
    SecondsCall /\ call.value.n < 3600 => result.out = Returned(TimeOfDay(call.value.n))


-----------------------------------------------------------------------------
(* C21: the date validator returns plain dates                             *)

DateCall == call.op = "date"

\* a value with no time of day: a date, or the day of an instant
IsPlainDate(dt) == dt.kind \in {"date", "instant_date"}

\* C21: the date validator returns a plain date for every accepted input: a
\* native date as is, a native date-time narrowed to its date, text and
\* numbers parsed as date-times and reduced to the date; it never returns a
\* value that still carries a time of day.
C21_DateValidatorReturnsPlainDate ==
    (DateCall /\ result.out.ok) =>
        /\ IsPlainDate(result.out.dt)
        /\ call.value.kind = "date" => result.out.dt = call.value.native
        /\ call.value.kind = "datetime" =>
              result.out.dt = datetime_to_date(call.value.native)
        /\ call.value.kind \in {"text", "number"} =>
              result.out.dt = datetime_to_date(str_or_int_to_datetime(call.value.text).dt)

\* the same for every input but a native date-time
C21_ExceptNativeDatetime ==
    (DateCall /\ result.out.ok /\ call.value.kind # "datetime") =>
        /\ IsPlainDate(result.out.dt)
        /\ call.value.kind = "date" => result.out.dt = call.value.native
        /\ call.value.kind \in {"text", "number"} =>
              result.out.dt = datetime_to_date(str_or_int_to_datetime(call.value.text).dt)


-----------------------------------------------------------------------------
(* C22: the fallback of a serializer given a value of another type         *)

\* a serializer bound to one scalar type was called with a value that is
\* neither None nor of that type
MismatchCall ==
    /\ call.op = "serializer"
    /\ call.ser.k \in InheritsSerialize \cup OwnSerialize
    /\ call.value # NoneV
    /\ ~IsInstanceOf(call.value, call.ser.k)

NoneCall == call.op = "serializer" /\ call.value = NoneV

\* the conversion of the runtime type in the mode asked for, and one
\* diagnostic naming the expected and the actual type
FallbackOutcome ==
    /\ ~result.out.raised
    /\ result.out.value = UncheckConvert(call.value, call.method)
    /\ result.out.parameter.error_messages
          = <<[expect |-> call.ser.k, got |-> call.value.t]>>

\* C22: for every concrete serializer and in both modes, a value that is not
\* None and not an instance of the serializer's type is converted as the
\* dispatch table converts its runtime type in the mode asked for, and exactly
\* one type-mismatch diagnostic is recorded for it; None never records one.
C22_FallbackConvertsAndRecordsOnce ==
    /\ MismatchCall => FallbackOutcome
    /\ NoneCall => result.out.parameter.error_messages = <<>>

\* the same for the serializers that inherit serialize from Serializer, and
\* for every serializer in the native mode
C22_InheritedSerializeOnly ==
    /\ (MismatchCall /\ (call.ser.k \in InheritsSerialize \/ call.method = "python"))
          => FallbackOutcome
    /\ NoneCall => result.out.parameter.error_messages = <<>>


-----------------------------------------------------------------------------
(* C23: the union serializer                                               *)

\* the value is of the shape the serializer is bound to, so that serializing
\* it meets no type mismatch: None, an instance of the scalar type, or a
\* tuple with no more items than declared, each fitting its own serializer
RECURSIVE Fits(_, _)
Fits(ser, value) ==
    IF ser.k = "any" \/ value = NoneV THEN TRUE
    ELSE IF ser.k = "tuple"
    THEN /\ value.t \in {"tuple", "list"}
         /\ ser.variadic \/ Len(value.l) <= Len(ser.subs)
         /\ \A i \in 1..Len(value.l) :
               Fits(ser.subs[IF ser.variadic THEN 1 ELSE i], value.l[i])
    ELSE IsInstanceOf(value, ser.k)

UnionCall == call.op = "serializer" /\ call.ser.k = "union"

FittingMembers == {i \in 1..Len(call.ser.subs) : Fits(call.ser.subs[i], call.value)}

FirstFitting == CHOOSE i \in FittingMembers : \A j \in FittingMembers : i <= j

\* the output of the first fitting member, and no diagnostic from the others
FirstFittingOutcome ==
    /\ ~result.out.raised
    /\ result.out.value
          = Serializer_call(call.ser.subs[FirstFitting], call.method, call.value,
                            call.parameter).value
    /\ result.out.parameter.error_messages = <<>>

\* C23: a union serializer returns the output of the first member, in declared
\* order, whose serialization of the value meets no type mismatch; a member
\* that meets a mismatch is aborted and contributes neither output nor
\* diagnostics; the caller's parameter keeps its mismatch-checking mode.
C23_UnionFirstCleanMember ==
    UnionCall =>
        /\ FittingMembers # {} => FirstFittingOutcome
        /\ result.out.parameter.check = call.parameter.check

\* the same in the wire-safe mode for unions of serializers that inherit
\* serialize from Serializer; in every case the checking mode is kept
C23_WireModeInheritedMembers ==
    UnionCall =>
        /\ (/\ call.method = "json"
            /\ \A i \in 1..Len(call.ser.subs) : call.ser.subs[i].k \in InheritsSerialize
            /\ FittingMembers # {}) => FirstFittingOutcome
        /\ result.out.parameter.check = call.parameter.check


-----------------------------------------------------------------------------
(* C24, C25: the lazily validating wrapper of a generator                  *)

Pulls == generator.pulls

\* the consumer has used next(wrapper) only
OnlyNext == \A j \in 1..Len(Pulls) : Pulls[j].via = "next"

\* the j-th pull consumed an item of the source
Consumed(j) == Pulls[j].out # StopIteration

\* the kinds of the failures a pull reported
KindsOf(out) ==
    IF out.ok THEN {} ELSE {out.line_errors[i].exception_type : i \in 1..Len(out.line_errors)}

\* every failure the pull reported is located at the item's position in the source
LocatedAtPosition(j) ==
    \A i \in 1..Len(Pulls[j].out.line_errors) :
        Pulls[j].out.line_errors[i].loc = <<LocIdx(Pulls[j].position)>>

\* the count check and the locations of the j-th pull, the item pulled being
\* number position + 1
PullChecked(j) ==
    LET k == Pulls[j].position + 1
    IN /\ (generator.min_length # NoLen /\ k < generator.min_length)
             => "iter_too_short" \in KindsOf(Pulls[j].out)
       /\ (generator.max_length # NoLen /\ k > generator.max_length)
             => "iter_too_long" \in KindsOf(Pulls[j].out)
       /\ LocatedAtPosition(j)

\* C24: the wrapper re-checks the running item count against the length
\* bounds on every pulled item: pulling item number k raises iter_too_short
\* when k is below the minimum and iter_too_long when k exceeds the maximum,
\* and a failing item is reported at its zero-based position in the source,
\* also for pulls that follow an earlier failed pull.
C24_CountCheckedOnEveryPull ==
    OnlyNext => \A j \in 1..Len(Pulls) : Consumed(j) => PullChecked(j)

\* the same for the pulls up to and including the first one that failed
C24_UntilFirstFailure ==
    OnlyNext =>
        \A j \in 1..Len(Pulls) :
            (Consumed(j) /\ \A h \in 1..(j - 1) : Pulls[h].out.ok) => PullChecked(j)

\* the item handed over is the item validator's coercion of the source item
HandedValidated(j) ==
    Validate(IntVal, generator.source[Pulls[j].position + 1]) = Returned(Pulls[j].out.v)

\* C25: every item a consumer obtains from the wrapper, by pulling items one
\* at a time or by iterating over the wrapper in a loop, has been passed
\* through the item validator and is the coerced value.
C25_EveryItemValidated ==
    \A j \in 1..Len(Pulls) : Pulls[j].out.ok => HandedValidated(j)

\* the same for the items pulled one at a time
C25_PulledItemsValidated ==
    \A j \in 1..Len(Pulls) :
        (Pulls[j].out.ok /\ Pulls[j].via = "next") => HandedValidated(j)


-----------------------------------------------------------------------------
(* C26: default factories on pseudo-fields, mutable defaults               *)

DeclareCall == call.op = "declare"

\* the declaration reached compilation
Compiled == DeclareCall /\ result.out.at # "declaration"

FactoryOnPseudoField ==
    /\ Compiled
    /\ call.annotation \notin OrdinaryAnnotations
    /\ call.decl.default_factory # ""

MutableDefaultOnField ==
    /\ Compiled
    /\ call.annotation \in OrdinaryAnnotations
    /\ IsMutableDefault(call.decl.default)

RejectedAtCompile == result.out.exc # "" /\ result.out.at = "compile"

\* C26: record compilation rejects a default factory declared on a
\* class-scope pseudo-field and on an initialization-only pseudo-field, and a
\* literal list, map or set default on an ordinary field, at compile time.
C26_CompileRejections ==
    (FactoryOnPseudoField \/ MutableDefaultOnField) => RejectedAtCompile

\* literal mutable defaults on ordinary fields alone
C26_MutableDefaultRejected ==
    MutableDefaultOnField => (RejectedAtCompile /\ result.out.exc = "ValueError")


-----------------------------------------------------------------------------
(* C27: missing call arguments                                             *)

FunctionCall == call.op = "function" /\ call.value.kind # "other"

\* a value was supplied for the i-th parameter, by position or by name
Supplied(i) ==
    IF call.value.kind = "dict" THEN call.value.byname[call.parameters[i].name] # AbsentV
    ELSE i <= Len(call.value.items)

\* the parameters that have no default and no supplied value, the catch-all
\* parameters set aside
MissingParameters ==
    {i \in 1..Len(call.parameters) :
        /\ call.parameters[i].kind = "PLAIN"
        /\ ~call.parameters[i].has_default
        /\ ~Supplied(i)}

\* the parameters a `missing` entry of the outcome names, by name or position
ReportedParameters ==
    {i \in 1..Len(call.parameters) :
        \E k \in 1..Len(result.out.line_errors) :
            /\ result.out.line_errors[k].exception_type = "missing"
            /\ result.out.line_errors[k].loc
                  \in {<<LocName(call.parameters[i].name)>>, <<LocIdx(i - 1)>>}}

\* C27: the function-argument validator records a `missing` entry for a
\* parameter if and only if it has no default and no value was supplied for
\* it; an omitted parameter with a default and the catch-all parameters are
\* never reported; all missing parameters are reported in one ValidationError.
C27_MissingIffNoDefaultAndNoValue ==
    FunctionCall =>
        /\ ReportedParameters = MissingParameters
        /\ result.out.ok <=> MissingParameters = {}
        /\ ~result.out.ok => result.out.exc = "ValidationError"

\* the same for functions whose parameters all lack a default and are not
\* catch-all, given arguments none of which is None
C27_RequiredParametersOnly ==
    (/\ FunctionCall
     /\ \A i \in 1..Len(call.parameters) :
           call.parameters[i].kind = "PLAIN" /\ ~call.parameters[i].has_default
     /\ NoneV \notin Range(call.value.items)
     /\ \A nm \in DOMAIN call.value.byname : call.value.byname[nm] # NoneV)
    =>  /\ ReportedParameters = MissingParameters
        /\ result.out.ok <=> MissingParameters = {}
        /\ ~result.out.ok => result.out.exc = "ValidationError"


-----------------------------------------------------------------------------
(* C28: keyword-argument bundles of nested validators                      *)

BuildCall == call.op = "build"

Delivered == result.out.delivered

\* every nested validator was built, and the i-th with the given bundle
DeliveredAt(i, bundle) == Len(Delivered) = call.nested /\ Delivered[i] = bundle

\* no bundle present: empty bundles, and the keyword arguments are as before
NothingExtracted ==
    /\ \A i \in 1..call.nested : DeliveredAt(i, {})
    /\ result.out.kwargs = call.kwargs

\* C28: a shared (map-form) bundle is delivered to every nested validator of
\* the parent, whatever their number; a list of L bundles delivers the i-th
\* bundle to the i-th nested validator and the reserved key is removed from
\* the parent's keyword arguments exactly when position L-1 has been consumed;
\* with no bundle present the extraction returns an empty bundle and changes
\* nothing.
C28_BundlesDelivered ==
    BuildCall =>
        /\ (call.kwargs.present /\ call.kwargs.form = "dict") =>
              \A i \in 1..call.nested : DeliveredAt(i, call.kwargs.bundles[1])
        /\ (call.kwargs.present /\ call.kwargs.form = "list") =>
              /\ \A i \in 1..call.nested :
                    i <= Len(call.kwargs.bundles) => DeliveredAt(i, call.kwargs.bundles[i])
              /\ ~result.out.kwargs.present <=> call.nested >= Len(call.kwargs.bundles)
        /\ ~call.kwargs.present => NothingExtracted

\* the shared bundle reaches the first nested validator only, and the list
\* form is as stated for the builders that pass the position
C28_SharedBundleFirstOnly ==
    BuildCall =>
        /\ (call.kwargs.present /\ call.kwargs.form = "dict") =>
              /\ \A i \in 1..call.nested :
                    DeliveredAt(i, IF i = 1 THEN call.kwargs.bundles[1] ELSE {})
              /\ call.nested >= 1 => ~result.out.kwargs.present
        /\ (call.kwargs.present /\ call.kwargs.form = "list"
              /\ call.builder \in IndexedBuilders) =>
              /\ \A i \in 1..call.nested :
                    DeliveredAt(i, IF i <= Len(call.kwargs.bundles)
                                   THEN call.kwargs.bundles[i] ELSE {})
              /\ ~result.out.kwargs.present <=> call.nested >= Len(call.kwargs.bundles)
        /\ ~call.kwargs.present => NothingExtracted


-----------------------------------------------------------------------------
(* C29: the ancestor's fields while a derived type is compiled             *)

\* the compilation of a type derived from an ancestor with fields has ended
DerivedCompilationEnded ==
    /\ cpc \in {"compiled", "raised"}
    /\ cls.base_fields # <<>>

-----------------------------------------------------------------------------
(* C30: round trip of durations                                            *)

\* a duration of whole seconds went through the serializer and the validator
RoundTripCall == call.op = "timedelta_round_trip" /\ call.value.microseconds = 0

RoundTripHolds == result.out.ok /\ result.out.delta = call.value

\* C30: for every duration of whole seconds, positive, zero or negative,
\* shorter or longer than a day, validating its wire-safe serialization with
\* the duration validator yields an equal duration.
C30_DurationRoundTrip ==
    RoundTripCall => RoundTripHolds

\* the same for the durations that are not negative, and for the negative
\* ones of whole days
C30_NonNegativeRoundTrip ==
    (RoundTripCall /\ (call.value.days >= 0 \/ call.value.seconds = 0)) => RoundTripHolds

\* a negative duration that is not of whole days comes back as another one
C30_NegativeOffByDays ==
    (RoundTripCall /\ call.value.days < 0 /\ call.value.seconds # 0) =>
        /\ result.out.ok
        /\ result.out.delta = Negated(TimeDelta(-call.value.days, call.value.seconds, 0))

=============================================================================
